---- MODULE Spec2Model ----
(***************************************************************************)
(* Single-vehicle EV routing-with-charging formulation                     *)
(* (src/model/ev_routing_model.py) together with the data filter that      *)
(* feeds it (src/routing_model/get_routing_map_data.py), the solve call    *)
(* and the loop over the fleet (src/routing_model/solve_routing_model.py), *)
(* the extraction of a solution (save_ev_solution_data.py), the demand     *)
(* aggregated per station and hour (save_scenario_solution_data.py) and    *)
(* the training-data file of scripts/main_routing_model.py.                *)
(*                                                                         *)
(* The parameters are whole numbers or fractions <<n, d>>, and the values  *)
(* of the continuous variables are fractions: the arithmetic of the rules  *)
(* (pDistanceAtAvgSpeed / pAvgSpeed, 1 / pAccelerationEfficiency) is       *)
(* exact.  The solver is a black box in the source; here the binary        *)
(* variables are enumerated and, for each of their values, the linear      *)
(* rows left over the non-negative reals are decided by elimination.       *)
(* The times read back from a solution and the energies aggregated from    *)
(* them are binary64 floats, added and multiplied with Python's rounding.  *)
(***************************************************************************)
EXTENDS Integers, Sequences, FiniteSets, TLC

\* Var(..., domain=Binary)
Binary == {0, 1}

\* The value of a Pyomo variable the solver has not set.
None == "None"

VARIABLES
    map_data,               \* the tables returned by load_excel_map_data
    ev,                     \* the vehicle being solved
    linearize_constraints,  \* the toggle of get_ev_routing_abstract_model
    input_data,             \* filter_map_data_for_ev(map_data, ev)
    concrete_model,         \* the values of the decision variables
    pc,                     \* where solve_for_one_ev is
    solution_data,          \* what extract_solution_data returned
    all_ev_results,         \* the results collected for the vehicles
    aggregated_demand,      \* what extract_aggregated_demand returned
    load_if_exists,         \* the toggle of solve_for_one_ev
    pending,                \* the vehicles the loop over map_data['evs'] has left
    solver_results,         \* the results opt.solve returned
    files,                  \* the solution workbooks on disk, by vehicle
    scenario,               \* the scenario main is run for
    training_data           \* the training-data CSV file on disk

\* The variables written after the solver has answered
report_vars == <<solution_data, all_ev_results, aggregated_demand>>

\* The variables of a run over the fleet and of the files it leaves
run_vars == <<load_if_exists, pending, solver_results, files, scenario,
              training_data>>

vars == <<pc, map_data, ev, linearize_constraints, input_data, concrete_model,
          report_vars, run_vars>>

----------------------------------------------------------------------------
(* Helpers *)

RECURSIVE Sum(_, _)
\* Python's sum(f[x] for x in S)
Sum(f, S) ==
    IF S = {} THEN 0
    ELSE LET x == CHOOSE y \in S : TRUE
         IN  f[x] + Sum(f, S \ {x})

----------------------------------------------------------------------------
(* Input tables (the sheets load_excel_map_data reads) *)

\* One sPaths row.  time = dist/speed + abt, energy = power*dist/speed + kin
PathRow(o, d, kind) ==
    [pOriginIntersection |-> o, pDestinationIntersection |-> d,
     pDistanceAtAvgSpeed |-> kind[1], pAvgSpeed |-> kind[2],
     pAccelerationBrakingTime |-> kind[3], pPowerConsAtAvgSpeed |-> kind[4],
     pKineticEnergy |-> kind[5]]

\* <<pDistanceAtAvgSpeed, pAvgSpeed, pAccelerationBrakingTime,
\*   pPowerConsAtAvgSpeed, pKineticEnergy>>
KindFree == <<0, 1, 0, 0, 0>>
KindRoad == <<2, 2, 0, 1, 0>>
KindHill == <<0, 1, 1, 0, 1>>
KindStall == <<2, 0, 0, 1, 0>>

\* Road networks as lists of <<origin, destination>>
NetTown == << <<1, 2>>, <<2, 1>>, <<1, 3>>, <<3, 4>>, <<4, 3>>, <<4, 2>> >>
NetLoop == << <<1, 3>>, <<3, 4>>, <<4, 1>>, <<4, 3>> >>
NetLane == << <<1, 2>> >>
Networks == {NetTown, NetLoop, NetLane}

\* The intersections of a network
NodesOf(net) ==
    {net[k][1] : k \in DOMAIN net} \cup {net[k][2] : k \in DOMAIN net}

\* How the rows of a network get their physical parameters
Profiles == {"free", "road", "hill", "mixed", "stall"}

KindOf(profile, od) ==
    CASE profile = "free" -> KindFree
      [] profile = "road" -> KindRoad
      [] profile = "hill" -> KindHill
      [] profile = "stall" -> KindStall
      [] OTHER -> IF {od[1], od[2]} = {3, 4} THEN KindFree ELSE KindRoad

PathsDf(net, profile) ==
    [k \in DOMAIN net |-> PathRow(net[k][1], net[k][2], KindOf(profile, net[k]))]

DeliveryRow(e, i, dur, deadline, pen) ==
    [EV |-> e, pDeliveryIntersection |-> i, pTimeMakingDelivery |-> dur,
     pTimeWithoutPenalty |-> deadline, pDelayPenalty |-> pen]

DeliveryTables ==
    { << >>,
      << DeliveryRow(1, 3, 0, 1, 1), DeliveryRow(2, 4, 1, 2, 1) >>,
      << DeliveryRow(1, 3, 0, 1, 1), DeliveryRow(1, 4, 0, 1, 2) >>,
      << DeliveryRow(1, 3, 2, 1, 1) >> }

StationRow(i, power, price, tmax, tmin, eff) ==
    [pStationIntersection |-> i, pChargingPower |-> power,
     pChargingPrice |-> price, pMaxChargingTime |-> tmax,
     pMinChargingTime |-> tmin, pChargerEfficiencyRate |-> eff]

StationTables ==
    { << >>,
      << StationRow(3, 1, 1, 2, 1, <<1, 1>>) >>,
      << StationRow(2, 1, 2, 2, 1, <<1, 1>>) >>,
      << StationRow(4, 2, 1, 2, 1, <<1, 1>>) >>,
      << StationRow(3, 1, 2, 2, 1, <<2, 1>>) >>,
      << StationRow(3, 1, 1, 1, 1, <<1, 1>>) >> }

\* The Unindexed sheet
Unindexed(start, end, soc0) ==
    [pAccelerationEfficiency |-> 1, pBrakingEfficiency |-> 0,
     pMinSoC |-> 1, pMaxSoC |-> 3, pStartingSoC |-> soc0,
     pStartingTime |-> 0, pMaxTime |-> 3,
     pStartingPoint |-> start, pEndingPoint |-> end]

Terminals == { <<1, 2>>, <<1, 4>>, <<1, 1>>, <<4, 4>> }
StartingSoCs == {0, 2}

MapData(net, profile, deliveries, stations, se, soc0) ==
    [unindexed_df |-> Unindexed(se[1], se[2], soc0),
     paths_df |-> PathsDf(net, profile),
     delivery_points_df |-> deliveries,
     charging_stations_df |-> stations]

----------------------------------------------------------------------------
(* filter_map_data_for_ev *)

filter_map_data_for_ev(md, e) ==
    LET paths_df == md.paths_df
        IsOfEv(row) == row.EV = e
        delivery_points_df == SelectSeq(md.delivery_points_df, IsOfEv)
        charging_stations_df == md.charging_stations_df
        intersections ==
            {paths_df[k].pOriginIntersection : k \in DOMAIN paths_df}
            \cup {paths_df[k].pDestinationIntersection : k \in DOMAIN paths_df}
        paths == 1..Len(paths_df)
        delivery_points ==
            {delivery_points_df[k].pDeliveryIntersection :
                k \in DOMAIN delivery_points_df}
        charging_stations ==
            {charging_stations_df[k].pStationIntersection :
                k \in DOMAIN charging_stations_df}
        \* dict(zip(points_list, rows)): the last row of a point is kept
        DRow(i) == delivery_points_df[
            CHOOSE k \in DOMAIN delivery_points_df :
                /\ delivery_points_df[k].pDeliveryIntersection = i
                /\ \A j \in DOMAIN delivery_points_df :
                      delivery_points_df[j].pDeliveryIntersection = i
                      => j <= k]
        SRow(i) == charging_stations_df[
            CHOOSE k \in DOMAIN charging_stations_df :
                /\ charging_stations_df[k].pStationIntersection = i
                /\ \A j \in DOMAIN charging_stations_df :
                      charging_stations_df[j].pStationIntersection = i
                      => j <= k]
    IN  [sIntersections |-> intersections,
         sPaths |-> paths,
         sDeliveryPoints |-> delivery_points,
         sChargingStations |-> charging_stations,
         pAccelerationEfficiency |-> md.unindexed_df.pAccelerationEfficiency,
         pBrakingEfficiency |-> md.unindexed_df.pBrakingEfficiency,
         pMinSoC |-> md.unindexed_df.pMinSoC,
         pMaxSoC |-> md.unindexed_df.pMaxSoC,
         pStartingSoC |-> md.unindexed_df.pStartingSoC,
         pStartingTime |-> md.unindexed_df.pStartingTime,
         pMaxTime |-> md.unindexed_df.pMaxTime,
         pStartingPoint |-> md.unindexed_df.pStartingPoint,
         pEndingPoint |-> md.unindexed_df.pEndingPoint,
         pNumIntersections |-> Cardinality(intersections),
         pOriginIntersection |->
             [p \in paths |-> paths_df[p].pOriginIntersection],
         pDestinationIntersection |->
             [p \in paths |-> paths_df[p].pDestinationIntersection],
         pAvgSpeed |-> [p \in paths |-> paths_df[p].pAvgSpeed],
         pAccelerationBrakingTime |->
             [p \in paths |-> paths_df[p].pAccelerationBrakingTime],
         pDistanceAtAvgSpeed |->
             [p \in paths |-> paths_df[p].pDistanceAtAvgSpeed],
         pPowerConsAtAvgSpeed |->
             [p \in paths |-> paths_df[p].pPowerConsAtAvgSpeed],
         pKineticEnergy |-> [p \in paths |-> paths_df[p].pKineticEnergy],
         pTimeMakingDelivery |->
             [i \in delivery_points |-> DRow(i).pTimeMakingDelivery],
         pTimeWithoutPenalty |->
             [i \in delivery_points |-> DRow(i).pTimeWithoutPenalty],
         pDelayPenalty |-> [i \in delivery_points |-> DRow(i).pDelayPenalty],
         pChargingPower |->
             [i \in charging_stations |-> SRow(i).pChargingPower],
         pChargingPrice |->
             [i \in charging_stations |-> SRow(i).pChargingPrice],
         pMaxChargingTime |->
             [i \in charging_stations |-> SRow(i).pMaxChargingTime],
         pMinChargingTime |->
             [i \in charging_stations |-> SRow(i).pMinChargingTime],
         pChargerEfficiencyRate |->
             [i \in charging_stations |-> SRow(i).pChargerEfficiencyRate]]

----------------------------------------------------------------------------
(* Sets and parameters of the concrete model (m.sX, m.pX in the source) *)

sIntersections == input_data.sIntersections
sPaths == input_data.sPaths
sDeliveryPoints == input_data.sDeliveryPoints
sChargingStations == input_data.sChargingStations
pAccelerationEfficiency == input_data.pAccelerationEfficiency
pBrakingEfficiency == input_data.pBrakingEfficiency
pMinSoC == input_data.pMinSoC
pMaxSoC == input_data.pMaxSoC
pStartingSoC == input_data.pStartingSoC
pStartingTime == input_data.pStartingTime
pMaxTime == input_data.pMaxTime
pStartingPoint == input_data.pStartingPoint
pEndingPoint == input_data.pEndingPoint
pOriginIntersection == input_data.pOriginIntersection
pDestinationIntersection == input_data.pDestinationIntersection
pAvgSpeed == input_data.pAvgSpeed
pAccelerationBrakingTime == input_data.pAccelerationBrakingTime
pDistanceAtAvgSpeed == input_data.pDistanceAtAvgSpeed
pPowerConsAtAvgSpeed == input_data.pPowerConsAtAvgSpeed
pKineticEnergy == input_data.pKineticEnergy
pTimeMakingDelivery == input_data.pTimeMakingDelivery
pTimeWithoutPenalty == input_data.pTimeWithoutPenalty
pDelayPenalty == input_data.pDelayPenalty
pChargingPower == input_data.pChargingPower
pChargingPrice == input_data.pChargingPrice
pMaxChargingTime == input_data.pMaxChargingTime
pMinChargingTime == input_data.pMinChargingTime
pChargerEfficiencyRate == input_data.pChargerEfficiencyRate

ExampleMap ==
    [unindexed_df |->
        [pAccelerationEfficiency |-> 1, pBrakingEfficiency |-> 0,
         pMinSoC |-> 10, pMaxSoC |-> 30, pStartingSoC |-> 20,
         pStartingTime |-> 0, pMaxTime |-> 5,
         pStartingPoint |-> 1, pEndingPoint |-> 5],
     paths_df |->
        << PathRow(1, 3, <<10, 10, 0, 4, 0>>),
           PathRow(3, 4, <<11, 10, 0, 0, 3>>),
           PathRow(4, 5, <<5, 10, 0, 0, 2>>),
           PathRow(1, 2, <<10, 10, 0, 1, 0>>),
           PathRow(2, 4, <<10, 10, 0, 1, 0>>),
           PathRow(5, 1, <<10, 10, 0, 1, 0>>) >>,
     delivery_points_df |-> << DeliveryRow(1, 4, 0, 2, 10) >>,
     charging_stations_df |-> << StationRow(3, 50, 2, 1, 0, <<9, 10>>) >>]

TestMaps ==
    {ExampleMap} \cup
    {MapData(net, profile, deliveries, stations, se, soc0) :
        net \in Networks, profile \in Profiles,
          deliveries \in DeliveryTables, stations \in StationTables,
          se \in Terminals, soc0 \in StartingSoCs}

----------------------------------------------------------------------------
(* Exact arithmetic on fractions and linear expressions *)

abs(x) == IF x < 0 THEN -x ELSE x

RECURSIVE gcd(_, _)
gcd(a, b) == IF b = 0 THEN a ELSE gcd(b, a % b)

\* The fraction n/d in lowest terms: <<numerator, denominator>>, denominator > 0
Frac(n, d) ==
    LET g == gcd(abs(n), abs(d))
    IN  IF d < 0 THEN <<(-n) \div g, (-d) \div g>> ELSE <<n \div g, d \div g>>

\* The coefficient of the variable x in the coefficients c
Coef(c, x) == IF x \in DOMAIN c THEN c[x] ELSE 0

RECURSIVE GcdOf(_, _)
\* The greatest common divisor of g and the values of f on S
GcdOf(f, g) ==
    IF DOMAIN f = {} \/ g = 1 THEN g
    ELSE LET x == CHOOSE y \in DOMAIN f : TRUE
         IN  GcdOf([y \in DOMAIN f \ {x} |-> f[y]], gcd(g, abs(f[x])))

\* (sum of c[x] * x + k) / d without its zero coefficients, in lowest terms
Lin(c, k, d) ==
    LET found == GcdOf(c, gcd(abs(k), d))
        g == IF found = 0 THEN 1 ELSE found
    IN  [c |-> [x \in {y \in DOMAIN c : c[y] # 0} |-> c[x] \div g],
         k |-> k \div g, d |-> d \div g]

\* A number of the data
Num(n) == [c |-> << >>, k |-> n, d |-> 1]

\* A continuous variable of the model
Var(name, i) == [c |-> (<<name, i>> :> 1), k |-> 0, d |-> 1]

Plus(e, f) ==
    Lin([x \in DOMAIN e.c \cup DOMAIN f.c |->
            Coef(e.c, x) * f.d + Coef(f.c, x) * e.d],
        e.k * f.d + f.k * e.d, e.d * f.d)

Minus(e, f) ==
    Lin([x \in DOMAIN e.c \cup DOMAIN f.c |->
            Coef(e.c, x) * f.d - Coef(f.c, x) * e.d],
        e.k * f.d - f.k * e.d, e.d * f.d)

\* e * f where e is a number
Times(e, f) ==
    Lin([x \in DOMAIN f.c |-> e.k * f.c[x]], e.k * f.k, e.d * f.d)

\* e / f where f is a number other than 0
Over(e, f) ==
    IF f.k > 0
    THEN Lin([x \in DOMAIN e.c |-> e.c[x] * f.d], e.k * f.d, e.d * f.k)
    ELSE Lin([x \in DOMAIN e.c |-> (-e.c[x]) * f.d], (-e.k) * f.d,
             e.d * (-f.k))

RECURSIVE LinSum(_)
\* sum(f[x] for x in DOMAIN f) of linear expressions
LinSum(f) ==
    IF DOMAIN f = {} THEN Num(0)
    ELSE LET x == CHOOSE y \in DOMAIN f : TRUE
         IN  Plus(f[x], LinSum([y \in DOMAIN f \ {x} |-> f[y]]))

\* A row of the constraint system: sum of c[x] * x + k (op) 0
Row(e, op) ==
    LET lowest == Lin(e.c, e.k, 0)
    IN  [c |-> lowest.c, k |-> lowest.k, op |-> op]

\* e == f, e >= f, e <= f, e > f as rows
Eq(e, f) == Row(Minus(e, f), "=")
Ge(e, f) == Row(Minus(e, f), ">=")
Le(e, f) == Row(Minus(f, e), ">=")
Gt(e, f) == Row(Minus(e, f), ">")

\* Constraint.Skip: no row is built
Skip == Eq(Num(0), Num(0))

\* A row without a variable
IsConst(r) == DOMAIN r.c = {}

\* A row without a variable is true
ConstHolds(r) ==
    CASE r.op = "=" -> r.k = 0
      [] r.op = ">=" -> r.k >= 0
      [] OTHER -> r.k > 0

\* a * r + b * s, a row with operator op
Combine(a, r, b, s, op) ==
    LET e == Lin([x \in DOMAIN r.c \cup DOMAIN s.c |->
                     a * Coef(r.c, x) + b * Coef(s.c, x)],
                 a * r.k + b * s.k, 0)
    IN  [c |-> e.c, k |-> e.k, op |-> op]

\* The row r with the variable x replaced by its value in the equation e
Subst(r, e, x) ==
    IF x \notin DOMAIN r.c THEN r
    ELSE IF e.c[x] > 0
         THEN Combine(e.c[x], r, -r.c[x], e, r.op)
         ELSE Combine(-e.c[x], r, r.c[x], e, r.op)

\* Fourier-Motzkin: the rows without x that the rows have a solution of
\* exactly when they have one with some value of x
Project(rows, x) ==
    LET lower == {r \in rows : x \in DOMAIN r.c /\ r.c[x] > 0}
        upper == {r \in rows : x \in DOMAIN r.c /\ r.c[x] < 0}
    IN  {r \in rows : x \notin DOMAIN r.c}
        \cup {Combine(-u.c[x], l, l.c[x], u,
                      IF l.op = ">" \/ u.op = ">" THEN ">" ELSE ">=")
              : l \in lower, u \in upper}

\* The value of a row's variables other than x at the point `at`, as the
\* fraction -(sum of c[y] * at[y] + k) / c[x]
RECURSIVE RowSum(_, _, _)
RowSum(c, at, acc) ==
    IF DOMAIN c = {} THEN acc
    ELSE LET y == CHOOSE z \in DOMAIN c : TRUE
             v == at[y]
         IN  RowSum([z \in DOMAIN c \ {y} |-> c[z]], at,
                    Frac(acc[1] * v[2] + c[y] * v[1] * acc[2],
                         acc[2] * v[2]))

\* The x that makes the row an equation, given the other variables
SolveFor(r, x, at) ==
    LET s == RowSum([y \in DOMAIN r.c \ {x} |-> r.c[y]], at, <<r.k, 1>>)
    IN  Frac(-s[1], s[2] * r.c[x])

Less(p, q) == p[1] * q[2] < q[1] * p[2]

\* The greatest / least of a non-empty set of fractions
Greatest(S) == CHOOSE p \in S : \A q \in S : ~Less(p, q)
Smallest(S) == CHOOSE p \in S : \A q \in S : ~Less(q, p)

\* The value of x at an end of the interval the rows leave it at the
\* point: the least value, or the greatest when pick = "most" and the rows
\* bound x from above
PickValue(rows, x, at, pick) ==
    LET exact == {r \in rows : r.op = "="}
        lower == {SolveFor(r, x, at) : r \in {s \in rows : s.c[x] > 0}}
        upper == {SolveFor(r, x, at) : r \in {s \in rows : s.c[x] < 0}}
    IN  IF exact # {} THEN SolveFor(CHOOSE r \in exact : TRUE, x, at)
        ELSE IF pick = "most" /\ upper # {} THEN Smallest(upper)
        ELSE IF lower # {} THEN Greatest(lower)
        ELSE IF upper # {} THEN Smallest(upper) ELSE <<0, 1>>

\* No solution: the outcome of an elimination that met a false row
NoSolution == [ok |-> FALSE, stages |-> << >>, rows |-> {}, free |-> << >>]

RECURSIVE Reduce(_, _)
\* Gaussian elimination: every variable of the order that an equation
\* holds is replaced by its value in that equation.  `stages` are these
\* variables, each with its equation; `rows` are the rows left, over the
\* variables `free`.
Reduce(rows, order) ==
    IF \E r \in rows : IsConst(r) /\ ~ConstHolds(r) THEN NoSolution
    ELSE IF order = << >>
    THEN [ok |-> TRUE, stages |-> << >>,
          rows |-> {r \in rows : ~IsConst(r)}, free |-> << >>]
    ELSE LET x == Head(order)
             live == {r \in rows : ~IsConst(r)}
             equations == {r \in live : r.op = "=" /\ x \in DOMAIN r.c}
             e == CHOOSE r \in equations : TRUE
         IN  CHOOSE result \in
                { IF ~rest.ok THEN NoSolution
                  ELSE IF equations = {}
                  THEN [rest EXCEPT !.free = <<x>> \o @]
                  ELSE [rest EXCEPT
                           !.stages = << [x |-> x, rows |-> {e}] >> \o @]
                  : rest \in
                      { Reduce(IF equations = {} THEN live
                               ELSE {Subst(r, e, x) : r \in live \ {e}},
                               Tail(order)) } } : TRUE

RECURSIVE Projected(_, _)
\* Fourier-Motzkin elimination of the variables of the order from rows
\* without equations: `stages` are the variables, each with the rows that
\* bound it in terms of the later ones
Projected(rows, order) ==
    IF \E r \in rows : IsConst(r) /\ ~ConstHolds(r) THEN NoSolution
    ELSE IF order = << >>
    THEN [ok |-> TRUE, stages |-> << >>, rows |-> {}, free |-> << >>]
    ELSE LET x == Head(order)
             live == {r \in rows : ~IsConst(r)}
             bounding == {r \in live : x \in DOMAIN r.c}
         IN  CHOOSE result \in
                { IF ~rest.ok THEN NoSolution
                  ELSE [rest EXCEPT
                           !.stages = << [x |-> x, rows |-> bounding] >> \o @]
                  : rest \in
                      { Projected(IF bounding = {} THEN live
                                  ELSE Project(live, x),
                                  Tail(order)) } } : TRUE

\* The rows with every variable of the order eliminated, equations first:
\* ok is FALSE exactly when the rows have no solution over the reals
Eliminate(rows, order) ==
    CHOOSE result \in
        { IF ~reduced.ok THEN NoSolution
          ELSE CHOOSE found \in
                  { IF ~projected.ok THEN NoSolution
                    ELSE [projected EXCEPT !.stages = reduced.stages \o @]
                    : projected \in
                        {Projected(reduced.rows, reduced.free)} } : TRUE
          : reduced \in {Reduce(rows, order)} } : TRUE

\* The rows have a solution over the reals
Feasible(rows, order) == Eliminate(rows, order).ok

\* The row with its sign changed
Opposite(r) == [r EXCEPT !.c = [x \in DOMAIN r.c |-> -r.c[x]], !.k = -r.k]

\* The rows one of which holds exactly when r does not
Refutations(r) ==
    CASE r.op = "=" -> {[r EXCEPT !.op = ">"], [Opposite(r) EXCEPT !.op = ">"]}
      [] r.op = ">=" -> {[Opposite(r) EXCEPT !.op = ">"]}
      [] OTHER -> {[Opposite(r) EXCEPT !.op = ">="]}

RECURSIVE Replaced(_, _)
\* The row with the variables of the stages replaced in turn
Replaced(r, stages) ==
    IF stages = << >> THEN r
    ELSE Replaced(Subst(r, CHOOSE e \in Head(stages).rows : TRUE,
                        Head(stages).x),
                  Tail(stages))

\* The rows that were reduced have a solution over the reals that
\* satisfies the rows `more` as well
Consistent(reduced, more) ==
    Projected(reduced.rows \cup {Replaced(r, reduced.stages) : r \in more},
              reduced.free).ok

\* Every solution over the reals of the rows that were reduced satisfies r:
\* together with the rows, no refutation of r has a solution
Entails(reduced, r) ==
    \A refutation \in Refutations(r) : ~Consistent(reduced, {refutation})

RECURSIVE Valued(_, _)
\* A solution of eliminated rows: the variables valued from the last to
\* the first, each at an end of the interval its rows leave it
Valued(stages, pick) ==
    IF stages = << >> THEN << >>
    ELSE CHOOSE result \in
            { (Head(stages).x :>
                  PickValue(Head(stages).rows, Head(stages).x, at, pick)) @@ at
              : at \in {Valued(Tail(stages), pick)} } : TRUE

----------------------------------------------------------------------------
(* The decision variables of the model, as one record m of values *)

VarNames ==
    {"v01Charge", "v01TravelPath", "v01VisitIntersection", "vSoCArrival",
     "vSoCDeparture", "vTimeArrival", "vTimeDeparture", "vTimeCharging",
     "vTimeDelay", "vXiSoC", "vZetaTime"}

\* Every variable without a value (the model before opt.solve)
NoValues == [n \in VarNames |-> None]

\* Paths with a given origin / destination (the filters of the sums)
PathsFrom(intersection) ==
    {path \in sPaths : pOriginIntersection[path] = intersection}

PathsInto(intersection) ==
    {path \in sPaths : pDestinationIntersection[path] = intersection}

\* A fraction <<n, d>> of the data as a number
Number(v) == Over(Num(v[1]), Num(v[2]))

----------------------------------------------------------------------------
(* Objective *)

\* Mutant of c34: the charging cost ignores the charger efficiency
c34_without_efficiency ==
    Plus(LinSum([charging_station \in sChargingStations |->
                    Times(Times(Num(pChargingPrice[charging_station]),
                                Num(pChargingPower[charging_station])),
                          Var("vTimeCharging", charging_station))]),
         LinSum([delivery_point \in sDeliveryPoints |->
                    Times(Num(pDelayPenalty[delivery_point]),
                          Var("vTimeDelay", delivery_point))]))

c34_objective_function ==
    LET charging_cost ==
            LinSum([charging_station \in sChargingStations |->
                Times(Times(Times(Num(pChargingPrice[charging_station]),
                                  Num(pChargingPower[charging_station])),
                            Number(pChargerEfficiencyRate[charging_station])),
                      Var("vTimeCharging", charging_station))])
        delay_penalty ==
            LinSum([delivery_point \in sDeliveryPoints |->
                Times(Num(pDelayPenalty[delivery_point]),
                      Var("vTimeDelay", delivery_point))])
    IN  Plus(charging_cost, delay_penalty)

----------------------------------------------------------------------------
(* Navigation constraints *)

\* Mutant of c36: the rule is skipped for the start node, not the end node
c36_skips_starting_point(m, intersection) ==
    IF intersection = pStartingPoint THEN Skip
    ELSE Eq(LinSum([path \in PathsFrom(intersection) |->
                       Num(m.v01TravelPath[path])]),
            Num(m.v01VisitIntersection[intersection]))

c36_visit_intersection_when_origin_of_path(m, intersection) ==
    IF intersection = pEndingPoint THEN Skip
    ELSE Eq(LinSum([path \in PathsFrom(intersection) |->
                       Num(m.v01TravelPath[path])]),
            Num(m.v01VisitIntersection[intersection]))

c37_ending_point_cannot_be_origin(m) ==
    Eq(LinSum([path \in PathsFrom(pEndingPoint) |->
                  Num(m.v01TravelPath[path])]),
       Num(0))

c38_visit_intersection_when_destination_of_path(m, intersection) ==
    IF intersection = pStartingPoint THEN Skip
    ELSE Eq(LinSum([path \in PathsInto(intersection) |->
                       Num(m.v01TravelPath[path])]),
            Num(m.v01VisitIntersection[intersection]))

c39_starting_point_cannot_be_destination(m) ==
    Eq(LinSum([path \in PathsInto(pStartingPoint) |->
                  Num(m.v01TravelPath[path])]),
       Num(0))

c40_visit_starting_point(m) ==
    Eq(Num(m.v01VisitIntersection[pStartingPoint]), Num(1))

\* Mutant of c41: the visit flag of a delivery point is left free
c41_visit_not_forced(m, delivery_point) ==
    Le(Num(m.v01VisitIntersection[delivery_point]), Num(1))

c41_visit_delivery_point(m, delivery_point) ==
    Eq(Num(m.v01VisitIntersection[delivery_point]), Num(1))

----------------------------------------------------------------------------
(* Battery constraints *)

\* Mutant of c24 (arrival, lower): no floor on the arrival SoC
c24_arrival_without_floor(m, intersection) ==
    Ge(Var("vSoCArrival", intersection), Num(0))

c24_soc_arrival_lower_bound(m, intersection) ==
    Ge(Var("vSoCArrival", intersection),
       Times(Num(m.v01VisitIntersection[intersection]), Num(pMinSoC)))

c24_soc_arrival_upper_bound(m, intersection) ==
    Le(Var("vSoCArrival", intersection),
       Times(Num(m.v01VisitIntersection[intersection]), Num(pMaxSoC)))

\* Only built when not linearize_constraints
c24_soc_departure_lower_bound(m, intersection) ==
    Ge(Var("vSoCDeparture", intersection),
       Times(Num(m.v01VisitIntersection[intersection]), Num(pMinSoC)))

\* Only built when not linearize_constraints
c24_soc_departure_upper_bound(m, intersection) ==
    Le(Var("vSoCDeparture", intersection),
       Times(Num(m.v01VisitIntersection[intersection]), Num(pMaxSoC)))

\* pChargingPower * vTimeCharging * pChargerEfficiencyRate
ChargedEnergy(charging_station) ==
    Times(Times(Num(pChargingPower[charging_station]),
                Number(pChargerEfficiencyRate[charging_station])),
          Var("vTimeCharging", charging_station))

\* Mutant of c25: the battery may leave a station with more than it charged
c25_departure_at_least_charged(m, charging_station) ==
    Ge(Var("vSoCDeparture", charging_station),
       Plus(Var("vSoCArrival", charging_station),
            ChargedEnergy(charging_station)))

c25_soc_departure_charging_station(m, charging_station) ==
    Eq(Var("vSoCDeparture", charging_station),
       Plus(Var("vSoCArrival", charging_station),
            ChargedEnergy(charging_station)))

c27_soc_departure_non_charging_station(m, intersection) ==
    Eq(Var("vSoCDeparture", intersection), Var("vSoCArrival", intersection))

c42_soc_starting_point(m) ==
    Eq(Var("vSoCArrival", pStartingPoint),
       Times(Num(m.v01VisitIntersection[pStartingPoint]), Num(pStartingSoC)))

\* The energy a path consumes:
\* pPowerConsAtAvgSpeed * (pDistanceAtAvgSpeed / pAvgSpeed)
\* + (1 / pAccelerationEfficiency - pBrakingEfficiency) * pKineticEnergy
PathEnergy(path) ==
    Plus(Times(Num(pPowerConsAtAvgSpeed[path]),
               Over(Num(pDistanceAtAvgSpeed[path]), Num(pAvgSpeed[path]))),
         Times(Minus(Over(Num(1), Num(pAccelerationEfficiency)),
                     Num(pBrakingEfficiency)),
               Num(pKineticEnergy[path])))

c43_soc_arrival_energy_balance(m, intersection) ==
    IF intersection = pStartingPoint THEN Skip
    ELSE IF linearize_constraints
    THEN Eq(Var("vSoCArrival", intersection),
            LinSum([path \in PathsInto(intersection) |->
                Minus(Var("vXiSoC", path),
                      Times(Num(m.v01TravelPath[path]), PathEnergy(path)))]))
    ELSE Eq(Var("vSoCArrival", intersection),
            LinSum([path \in PathsInto(intersection) |->
                Times(Num(m.v01TravelPath[path]),
                      Minus(Var("vSoCDeparture", pOriginIntersection[path]),
                            PathEnergy(path)))]))

\* Mutant of c44: the end node is held to the SoC floor only
c44_with_min_soc(m) ==
    Ge(Var("vSoCDeparture", pEndingPoint),
       Times(Num(m.v01VisitIntersection[pEndingPoint]), Num(pMinSoC)))

c44_soc_ending_point(m) ==
    Ge(Var("vSoCDeparture", pEndingPoint),
       Times(Num(m.v01VisitIntersection[pEndingPoint]), Num(pStartingSoC)))

----------------------------------------------------------------------------
(* Time constraints *)

c45_time_arrival_starting_point(m) ==
    Eq(Var("vTimeArrival", pStartingPoint),
       Times(Num(m.v01VisitIntersection[pStartingPoint]), Num(pStartingTime)))

\* Mutant of c46: the acceleration/braking time of the path is left out
c46_without_acceleration_time(m, intersection) ==
    IF intersection = pStartingPoint THEN Skip
    ELSE IF linearize_constraints
    THEN Eq(Var("vTimeArrival", intersection),
            LinSum([path \in PathsInto(intersection) |->
                Plus(Var("vZetaTime", path),
                     Times(Num(m.v01TravelPath[path]),
                           Over(Num(pDistanceAtAvgSpeed[path]),
                                Num(pAvgSpeed[path]))))]))
    ELSE Eq(Var("vTimeArrival", intersection),
            LinSum([path \in PathsInto(intersection) |->
                Times(Num(m.v01TravelPath[path]),
                      Plus(Var("vTimeDeparture", pOriginIntersection[path]),
                           Over(Num(pDistanceAtAvgSpeed[path]),
                                Num(pAvgSpeed[path]))))]))

\* The time a path takes:
\* pDistanceAtAvgSpeed / pAvgSpeed + pAccelerationBrakingTime
PathTime(path) ==
    Plus(Over(Num(pDistanceAtAvgSpeed[path]), Num(pAvgSpeed[path])),
         Num(pAccelerationBrakingTime[path]))

c46_time_arrival_balance(m, intersection) ==
    IF intersection = pStartingPoint THEN Skip
    ELSE IF linearize_constraints
    THEN Eq(Var("vTimeArrival", intersection),
            LinSum([path \in PathsInto(intersection) |->
                Plus(Var("vZetaTime", path),
                     Times(Num(m.v01TravelPath[path]), PathTime(path)))]))
    ELSE Eq(Var("vTimeArrival", intersection),
            LinSum([path \in PathsInto(intersection) |->
                Times(Num(m.v01TravelPath[path]),
                      Plus(Var("vTimeDeparture", pOriginIntersection[path]),
                           PathTime(path)))]))

c47_time_departure_delivery_point(m, delivery_point) ==
    Eq(Var("vTimeDeparture", delivery_point),
       Plus(Var("vTimeArrival", delivery_point),
            Num(pTimeMakingDelivery[delivery_point])))

\* Mutant of c48: the vehicle may stay longer than it charges
c48_departure_after_charging(m, charging_station) ==
    Ge(Var("vTimeDeparture", charging_station),
       Plus(Var("vTimeArrival", charging_station),
            Var("vTimeCharging", charging_station)))

c48_time_departure_charging_station(m, charging_station) ==
    Eq(Var("vTimeDeparture", charging_station),
       Plus(Var("vTimeArrival", charging_station),
            Var("vTimeCharging", charging_station)))

c49_charging_time_lower_bound(m, charging_station) ==
    Ge(Var("vTimeCharging", charging_station),
       Times(Num(m.v01Charge[charging_station]),
             Num(pMinChargingTime[charging_station])))

\* Mutant of c49 (upper): the bound does not depend on the charge flag
c49_upper_bound_without_charge(m, charging_station) ==
    Le(Var("vTimeCharging", charging_station),
       Num(pMaxChargingTime[charging_station]))

c49_charging_time_upper_bound(m, charging_station) ==
    Le(Var("vTimeCharging", charging_station),
       Times(Num(m.v01Charge[charging_station]),
             Num(pMaxChargingTime[charging_station])))

c50_charge_only_when_visiting(m, charging_station) ==
    Le(Num(m.v01Charge[charging_station]),
       Num(m.v01VisitIntersection[charging_station]))

c51_time_departure_regular_intersection(m, intersection) ==
    Eq(Var("vTimeDeparture", intersection), Var("vTimeArrival", intersection))

c52_time_arrival_ending_point_limit(m) ==
    Le(Var("vTimeArrival", pEndingPoint),
       Times(Num(m.v01VisitIntersection[pEndingPoint]), Num(pMaxTime)))

\* Mutant of c54: one time unit of lateness is free
c54_with_grace_period(m, delivery_point) ==
    Le(Var("vTimeArrival", delivery_point),
       Plus(Plus(Num(pTimeWithoutPenalty[delivery_point]), Num(1)),
            Var("vTimeDelay", delivery_point)))

c54_delivery_time_with_delay(m, delivery_point) ==
    Le(Var("vTimeArrival", delivery_point),
       Plus(Num(pTimeWithoutPenalty[delivery_point]),
            Var("vTimeDelay", delivery_point)))

----------------------------------------------------------------------------
(* Linearization constraints (only built when linearize_constraints) *)

cA7_xi_lower_bound(m, path) ==
    Ge(Var("vXiSoC", path), Num(0))

\* Mutant of cA7 (upper): the bound does not depend on the path being taken
cA7_upper_bound_without_travel(m, path) ==
    Le(Var("vXiSoC", path), Num(pMaxSoC))

cA7_xi_upper_bound(m, path) ==
    Le(Var("vXiSoC", path),
       Times(Num(pMaxSoC), Num(m.v01TravelPath[path])))

\* Mutant of cA6 (lower): the difference may be negative
cA6_lower_bound_loose(m, path) ==
    LET origin == pOriginIntersection[path]
    IN  Ge(Minus(Var("vSoCDeparture", origin), Var("vXiSoC", path)),
           Minus(Num(0), Num(pMaxSoC)))

cA6_soc_minus_xi_lower_bound(m, path) ==
    LET origin == pOriginIntersection[path]
    IN  Ge(Minus(Var("vSoCDeparture", origin), Var("vXiSoC", path)), Num(0))

\* Mutant of cA6 (upper): the bound does not depend on the travel flag
cA6_upper_bound_without_travel(m, path) ==
    LET origin == pOriginIntersection[path]
    IN  Le(Minus(Var("vSoCDeparture", origin), Var("vXiSoC", path)),
           Num(pMaxSoC))

cA6_soc_minus_xi_upper_bound(m, path) ==
    LET origin == pOriginIntersection[path]
    IN  Le(Minus(Var("vSoCDeparture", origin), Var("vXiSoC", path)),
           Times(Num(pMaxSoC), Minus(Num(1), Num(m.v01TravelPath[path]))))

cA11_zeta_lower_bound(m, path) ==
    Ge(Var("vZetaTime", path), Num(0))

cA11_zeta_upper_bound(m, path) ==
    Le(Var("vZetaTime", path),
       Times(Num(pMaxTime), Num(m.v01TravelPath[path])))

cA10_time_minus_zeta_lower_bound(m, path) ==
    LET origin == pOriginIntersection[path]
    IN  Ge(Minus(Var("vTimeDeparture", origin), Var("vZetaTime", path)),
           Num(0))

cA10_time_minus_zeta_upper_bound(m, path) ==
    LET origin == pOriginIntersection[path]
    IN  Le(Minus(Var("vTimeDeparture", origin), Var("vZetaTime", path)),
           Times(Num(pMaxTime), Minus(Num(1), Num(m.v01TravelPath[path]))))

----------------------------------------------------------------------------
(* The constraint system get_ev_routing_abstract_model builds, as the rows
   it has once the binary variables have the values of m *)

\* Var(S, domain=NonNegativeReals)
NonNegativeReals(name, S) == {Ge(Var(name, i), Num(0)) : i \in S}

Domains ==
    NonNegativeReals("vSoCArrival", sIntersections)
    \cup NonNegativeReals("vSoCDeparture", sIntersections)
    \cup NonNegativeReals("vTimeArrival", sIntersections)
    \cup NonNegativeReals("vTimeDeparture", sIntersections)
    \cup NonNegativeReals("vTimeCharging", sChargingStations)
    \cup NonNegativeReals("vTimeDelay", sDeliveryPoints)
    \cup (IF linearize_constraints
          THEN NonNegativeReals("vXiSoC", sPaths)
               \cup NonNegativeReals("vZetaTime", sPaths)
          ELSE {})

NavigationConstraints(m) ==
    {c37_ending_point_cannot_be_origin(m),
     c39_starting_point_cannot_be_destination(m),
     c40_visit_starting_point(m)}
    \cup {c36_visit_intersection_when_origin_of_path(m, i) :
            i \in sIntersections}
    \cup {c38_visit_intersection_when_destination_of_path(m, i) :
            i \in sIntersections}
    \cup {c41_visit_delivery_point(m, d) : d \in sDeliveryPoints}

BatteryConstraints(m) ==
    {c24_soc_arrival_lower_bound(m, i) : i \in sIntersections}
    \cup {c24_soc_arrival_upper_bound(m, i) : i \in sIntersections}
    \cup (IF linearize_constraints THEN {}
          ELSE {c24_soc_departure_lower_bound(m, i) : i \in sIntersections}
               \cup {c24_soc_departure_upper_bound(m, i) :
                       i \in sIntersections})
    \cup {c25_soc_departure_charging_station(m, s) : s \in sChargingStations}
    \cup {c27_soc_departure_non_charging_station(m, i) :
            i \in sIntersections \ sChargingStations}
    \cup {c42_soc_starting_point(m)}
    \cup {c43_soc_arrival_energy_balance(m, i) : i \in sIntersections}
    \cup {c44_soc_ending_point(m)}

TimeConstraints(m) ==
    {c45_time_arrival_starting_point(m)}
    \cup {c46_time_arrival_balance(m, i) : i \in sIntersections}
    \cup {c47_time_departure_delivery_point(m, d) : d \in sDeliveryPoints}
    \cup {c48_time_departure_charging_station(m, s) : s \in sChargingStations}
    \cup {c49_charging_time_lower_bound(m, s) : s \in sChargingStations}
    \cup {c49_charging_time_upper_bound(m, s) : s \in sChargingStations}
    \cup {c50_charge_only_when_visiting(m, s) : s \in sChargingStations}
    \cup {c51_time_departure_regular_intersection(m, i) :
            i \in (sIntersections \ sChargingStations) \ sDeliveryPoints}
    \cup {c52_time_arrival_ending_point_limit(m)}
    \cup {c54_delivery_time_with_delay(m, d) : d \in sDeliveryPoints}

LinearizationConstraints(m) ==
    IF linearize_constraints
    THEN UNION {{cA7_xi_lower_bound(m, path),
                 cA7_xi_upper_bound(m, path),
                 cA6_soc_minus_xi_lower_bound(m, path),
                 cA6_soc_minus_xi_upper_bound(m, path),
                 cA11_zeta_lower_bound(m, path),
                 cA11_zeta_upper_bound(m, path),
                 cA10_time_minus_zeta_lower_bound(m, path),
                 cA10_time_minus_zeta_upper_bound(m, path)} : path \in sPaths}
    ELSE {}

get_ev_routing_abstract_model(m) ==
    Domains
    \cup NavigationConstraints(m)
    \cup BatteryConstraints(m)
    \cup TimeConstraints(m)
    \cup LinearizationConstraints(m)

\* create_instance fails when a rule returns the Python value True instead
\* of an expression: c37 / c39 compare an empty sum (the int 0) with 0 when
\* no path leaves the end node / enters the start node.
create_instance_raises(data) ==
    \* Set(within=m.sIntersections), Param(within=m.sIntersections):
    \* ValueError for a value that is not in the domain
    \/ ~(data.sDeliveryPoints \subseteq data.sIntersections)
    \/ ~(data.sChargingStations \subseteq data.sIntersections)
    \/ data.pStartingPoint \notin data.sIntersections
    \/ data.pEndingPoint \notin data.sIntersections
    \* c43 / c46: ZeroDivisionError in the term of a path into an
    \* intersection other than the starting point
    \/ \E p \in data.sPaths :
          /\ data.pDestinationIntersection[p] # data.pStartingPoint
          /\ (data.pAvgSpeed[p] = 0 \/ data.pAccelerationEfficiency = 0)
    \* c37 / c39: the rule returns a trivial Boolean
    \/ {p \in data.sPaths :
            data.pOriginIntersection[p] = data.pEndingPoint} = {}
    \/ {p \in data.sPaths :
            data.pDestinationIntersection[p] = data.pStartingPoint} = {}

----------------------------------------------------------------------------
(* opt.solve.  The binary variables are given values first: the route
   (v01TravelPath), then the visit and the charge flags that the rules on
   the binary variables alone allow.  With them the constraint system is a
   set of linear rows over the continuous variables, which range over the
   non-negative reals; whether the rows have a solution is decided exactly
   by elimination. *)

\* The elements of a set of numbers in increasing order
RECURSIVE sort_values(_)
sort_values(S) ==
    IF S = {} THEN << >>
    ELSE LET least == CHOOSE x \in S : \A y \in S : x <= y
         IN  <<least>> \o sort_values(S \ {least})

\* The variables `name` of the indices S
KeysOf(name, S) ==
    LET index == sort_values(S)
    IN  [k \in DOMAIN index |-> <<name, index[k]>>]

\* The continuous variables of the model, auxiliary variables first and
\* charging times last
Order ==
    (IF linearize_constraints
     THEN KeysOf("vXiSoC", sPaths) \o KeysOf("vZetaTime", sPaths)
     ELSE << >>)
    \o KeysOf("vSoCDeparture", sIntersections)
    \o KeysOf("vSoCArrival", sIntersections)
    \o KeysOf("vTimeDeparture", sIntersections)
    \o KeysOf("vTimeArrival", sIntersections)
    \o KeysOf("vTimeDelay", sDeliveryPoints)
    \o KeysOf("vTimeCharging", sChargingStations)

RECURSIVE FunctionsOver(_, _)
\* Every function f on S with f[i] \in D[i]
FunctionsOver(S, D) ==
    IF S = {} THEN { << >> }
    ELSE LET x == CHOOSE y \in S : TRUE
         IN  {(x :> v) @@ g : v \in D[x], g \in FunctionsOver(S \ {x}, D)}

\* m with the variable `name` set to x at every index
Try(m, name, S, x) == [m EXCEPT ![name] = [j \in S |-> x]]

\* A rule on the binary variables holds
Satisfied(row) == IsConst(row) /\ ConstHolds(row)

LocalVisit(m, i) ==
    /\ Satisfied(c37_ending_point_cannot_be_origin(m))
    /\ Satisfied(c39_starting_point_cannot_be_destination(m))
    /\ Satisfied(c36_visit_intersection_when_origin_of_path(m, i))
    /\ Satisfied(c38_visit_intersection_when_destination_of_path(m, i))
    /\ i = pStartingPoint => Satisfied(c40_visit_starting_point(m))
    /\ i \in sDeliveryPoints => Satisfied(c41_visit_delivery_point(m, i))

LocalCharge(m, s) == Satisfied(c50_charge_only_when_visiting(m, s))

\* The rules that involve the binary variable `name` at index i alone
Local(name, m, i) ==
    CASE name = "v01VisitIntersection" -> LocalVisit(m, i)
      [] name = "v01Charge" -> LocalCharge(m, i)

\* Every m of M completed with the values of `name` that Local allows
Extend(M, name, S) ==
    UNION { { [m EXCEPT ![name] = f] :
                f \in FunctionsOver(S,
                    [i \in S |-> {x \in Binary :
                                     Local(name, Try(m, name, S, x), i)}]) }
            : m \in M }

\* The values of the binary variables with route `travel` that satisfy the
\* rules on the binary variables
Branches(travel) ==
    LET route == [NoValues EXCEPT !.v01TravelPath = travel]
        M0 == IF /\ Satisfied(c37_ending_point_cannot_be_origin(route))
                 /\ Satisfied(c39_starting_point_cannot_be_destination(route))
              THEN {route} ELSE {}
        M1 == Extend(M0, "v01VisitIntersection", sIntersections)
    IN  Extend(M1, "v01Charge", sChargingStations)

\* m with the continuous variables at the values of the point
Loaded(m, at) ==
    [m EXCEPT
        !.vSoCArrival = [i \in sIntersections |-> at[<<"vSoCArrival", i>>]],
        !.vSoCDeparture =
            [i \in sIntersections |-> at[<<"vSoCDeparture", i>>]],
        !.vTimeArrival = [i \in sIntersections |-> at[<<"vTimeArrival", i>>]],
        !.vTimeDeparture =
            [i \in sIntersections |-> at[<<"vTimeDeparture", i>>]],
        !.vTimeCharging =
            [s \in sChargingStations |-> at[<<"vTimeCharging", s>>]],
        !.vTimeDelay = [d \in sDeliveryPoints |-> at[<<"vTimeDelay", d>>]],
        !.vXiSoC = IF linearize_constraints
                   THEN [p \in sPaths |-> at[<<"vXiSoC", p>>]] ELSE None,
        !.vZetaTime = IF linearize_constraints
                      THEN [p \in sPaths |-> at[<<"vZetaTime", p>>]]
                      ELSE None]

\* The values m gives the continuous variables
Values(m) ==
    [x \in {Order[k] : k \in DOMAIN Order} |-> m[x[1]][x[2]]]

\* The row holds at the values of m
Holds(r, m) ==
    LET s == RowSum(r.c, Values(m), <<r.k, 1>>)
    IN  CASE r.op = "=" -> s[1] = 0
          [] r.op = ">=" -> s[1] >= 0
          [] OTHER -> s[1] > 0

\* The ends of the solution set a solver may stop at
Picks == {"least", "most"}

\* The solutions of the rows, with the binary values of b, that opt.solve
\* may load: one at each end of the solution set
Points(b, rows) ==
    UNION { IF found.ok
            THEN {Loaded(b, Valued(found.stages, pick)) : pick \in Picks}
            ELSE {}
            : found \in {Eliminate(rows, Order)} }

\* The assignments with the binary values of b that opt.solve may load
Solutions(b) == Points(b, get_ev_routing_abstract_model(b))

----------------------------------------------------------------------------
(* solve_for_one_ev up to the solver's answer *)

\* The vehicles of the delivery sheet (map_data['evs'])
evs(md) == {md.delivery_points_df[k].EV : k \in DOMAIN md.delivery_points_df}

\* What the solver reports for an instance: its status and the objective
\* value of the optimum
SolverOutcome(solver_status, objective_value) ==
    [solver_status |-> solver_status, objective_value |-> objective_value]

Init ==
    /\ map_data \in TestMaps
    /\ ev \in (IF evs(map_data) = {} THEN {1} ELSE evs(map_data))
    /\ linearize_constraints \in BOOLEAN
    /\ input_data = None
    /\ concrete_model = NoValues
    /\ pc = "loaded"
    /\ solution_data = None
    /\ all_ev_results = None
    /\ aggregated_demand = None
    /\ load_if_exists = FALSE
    /\ pending = << >>
    /\ solver_results = SolverOutcome(None, <<0, 1>>)
    /\ files = None
    /\ scenario = None
    /\ training_data = None

\* filter_map_data_for_ev, get_ev_routing_abstract_model, create_instance
CreateInstance ==
    /\ pc = "loaded"
    /\ input_data' = filter_map_data_for_ev(map_data, ev)
    /\ concrete_model' = NoValues
    /\ pc' = IF create_instance_raises(input_data') THEN "error" ELSE "built"
    /\ UNCHANGED <<map_data, ev, linearize_constraints>>
    /\ UNCHANGED report_vars
    /\ UNCHANGED run_vars

\* The solver fixes a route
Branch ==
    /\ pc = "built"
    /\ \E travel \in [sPaths -> Binary] :
          concrete_model' = [NoValues EXCEPT !.v01TravelPath = travel]
    /\ pc' = "branched"
    /\ UNCHANGED <<map_data, ev, linearize_constraints, input_data>>
    /\ UNCHANGED report_vars
    /\ UNCHANGED run_vars

\* The solver completes the route to a feasible assignment
SolveFeasible ==
    /\ pc = "branched"
    /\ \E b \in Branches(concrete_model.v01TravelPath) :
          \E m \in Solutions(b) : concrete_model' = m
    /\ pc' = "feasible"
    /\ UNCHANGED <<map_data, ev, linearize_constraints, input_data>>
    /\ UNCHANGED report_vars
    /\ UNCHANGED run_vars

\* No assignment with this route satisfies the constraints
SolveInfeasible ==
    /\ pc = "branched"
    /\ \A b \in Branches(concrete_model.v01TravelPath) :
          ~Feasible(get_ev_routing_abstract_model(b), Order)
    /\ pc' = "infeasible"
    /\ UNCHANGED <<map_data, ev, linearize_constraints, input_data,
                   concrete_model>>
    /\ UNCHANGED report_vars
    /\ UNCHANGED run_vars

Next ==
    \/ CreateInstance
    \/ Branch
    \/ SolveFeasible
    \/ SolveInfeasible

Spec == Init /\ [][Next]_vars

----------------------------------------------------------------------------
(* solve_for_one_ev with the solver run to optimality *)

\* The objective as one more variable, the last to be eliminated
Objective == <<"objective", 0>>

\* The value of a linear expression at the values of m
ValueOf(e, m) ==
    LET s == RowSum(e.c, Values(m), <<e.k, 1>>)
    IN  Frac(s[1], s[2] * e.d)

\* The values of the binary variables that some assignment satisfying the
\* model has, each with the least objective value of these assignments
\* (pyo.minimize)
Minima ==
    UNION { UNION { IF found.ok
                    THEN {[b |-> b,
                           least |-> Valued(found.stages, "least")[Objective]]}
                    ELSE {}
                    : found \in
                        {Eliminate(get_ev_routing_abstract_model(b)
                                   \cup {Eq(Var("objective", 0),
                                            c34_objective_function)},
                                   Order \o <<Objective>>)} }
            : b \in UNION {Branches(travel) : travel \in [sPaths -> Binary]} }

\* The least objective value over the branches of S
MinObjective(S) ==
    CHOOSE v \in {x.least : x \in S} : \A x \in S : ~Less(x.least, v)

\* The assignments with the binary values of b and the objective value
\* `least` that opt.solve may load
Optima(b, least) ==
    Points(b, get_ev_routing_abstract_model(b)
              \cup {Eq(c34_objective_function, Number(least))})

\* opt.solve returns an optimal assignment
SolveOptimal ==
    /\ pc = "built"
    /\ \E S \in {Minima} :
          /\ S # {}
          /\ \E least \in {MinObjective(S)} :
                /\ \E x \in {y \in S : y.least = least} :
                      \E m \in Optima(x.b, least) : concrete_model' = m
                /\ solver_results' = SolverOutcome("ok", least)
    /\ pc' = "optimal"
    /\ UNCHANGED <<map_data, ev, linearize_constraints, input_data>>
    /\ UNCHANGED report_vars
    /\ UNCHANGED <<load_if_exists, pending, files, scenario, training_data>>

\* opt.solve finds the model infeasible: {'solver_status': 'no_solution'}
SolveNoSolution ==
    /\ pc = "built"
    /\ \A travel \in [sPaths -> Binary] :
          \A b \in Branches(travel) :
              ~Feasible(get_ev_routing_abstract_model(b), Order)
    /\ solver_results' = SolverOutcome("no_solution", <<0, 1>>)
    /\ pc' = "no_solution"
    /\ UNCHANGED <<map_data, ev, linearize_constraints, input_data,
                   concrete_model>>
    /\ UNCHANGED report_vars
    /\ UNCHANGED <<load_if_exists, pending, files, scenario, training_data>>

\* solve_for_one_ev is called again on the same map_data and ev with the
\* other value of linearize_constraints; the instance is built anew, and
\* solver_results still holds what the solver reported the first time
SwitchFormulation ==
    /\ pc \in {"optimal", "no_solution"}
    /\ linearize_constraints' = ~linearize_constraints
    /\ concrete_model' = NoValues
    /\ pc' = "built"
    /\ UNCHANGED <<map_data, ev, input_data>>
    /\ UNCHANGED report_vars
    /\ UNCHANGED run_vars

NextOptimal ==
    \/ CreateInstance
    \/ SolveOptimal
    \/ SolveNoSolution
    \/ SwitchFormulation

SpecOptimal == Init /\ [][NextOptimal]_vars

----------------------------------------------------------------------------
(* Floating-point numbers.  The times of a solution and the energies of
   extract_aggregated_demand are Python floats, and the sums and products
   of the function are rounded.  A float that is 0 or more is written as
   the set of the exponents of its binary digits: 0.75 is {-1, -2}, 2.0 is
   {1} and 0.0 is {}.  A cell of a table is written in millionths (One is
   the cell 1.0) and becomes the float of its decimal numeral where the
   code computes with it. *)

\* The tolerance eps = 1e-5, in millionths
eps == 10

\* The number 1 (a flag that is set, one hour), in millionths
One == 100000 * eps

\* A missing cell of a data frame (a None of extract_solution_data in a
\* column of numbers); every number of a solution is 0 or more
NaN == -1

\* Mutant of isna: no cell is reported as missing
isna_never(x) == FALSE

\* pd.isna
isna(x) == x = NaN

\* The greatest exponent of the digits x
Highest(x) == CHOOSE e \in x : \A f \in x : f <= e

\* The first exponent from e upwards where the digits have a digit
\* (hit = TRUE) or have none (hit = FALSE)
First(digits, e, hit) ==
    CHOOSE q \in e..(Highest(digits \cup {e}) + 1) :
        /\ (q \in digits) = hit
        /\ \A k \in e..(q - 1) : (k \in digits) # hit

\* x + y before rounding: the digits in which x and y differ, and every
\* carry taken up to the first exponent without a digit
exact_add(x, y) ==
    LET digits == (x \ y) \cup (y \ x)
        carries == {e + 1 : e \in x \cap y}
    IN  (digits \ UNION {e..(First(digits, e, FALSE) - 1) : e \in carries})
        \cup {First(digits, e, FALSE) : e \in carries}

\* x - y before rounding, for x >= y: every borrow is taken from the first
\* exponent with a digit
exact_sub(x, y) ==
    LET digits == (x \ y) \cup (y \ x)
        borrows == {e + 1 : e \in y \ x}
    IN  (digits \ {First(digits, e, TRUE) : e \in borrows})
        \cup UNION {e..(First(digits, e, TRUE) - 1) : e \in borrows}

\* The binary digits of the natural number n < 2^31, the lowest at exponent e
binary_digits(n, e) ==
    {e + k : k \in {j \in 0..30 : (n \div 2 ^ j) % 2 = 1}}

RECURSIVE exact_times(_, _)
\* n * x before rounding, for a natural number n
exact_times(n, x) ==
    IF n = 0 THEN {}
    ELSE exact_add(IF n % 2 = 1 THEN x ELSE {},
                   {e + 1 : e \in exact_times(n \div 2, x)})

\* Round to nearest, ties to even, to the 53 binary digits of a float
round_to_float(x) ==
    IF x = {} THEN {}
    ELSE LET half == Highest(x) - 53
             kept == {e \in x : e > half}
         IN  IF half \in x /\ (half + 1 \in x \/ \E e \in x : e < half)
             THEN exact_add(kept, {half + 1})
             ELSE kept

RECURSIVE binary_fraction(_, _)
\* The binary digits of r millionths, r < 1000000, from exponent e
\* downwards, ten at a time; what is left below exponent -80 is one more
\* digit, which rounding only asks to be there
binary_fraction(r, e) ==
    IF r = 0 THEN {}
    ELSE IF e < -80 THEN {e}
    ELSE binary_digits((r * 1024) \div 1000000, e - 9)
         \cup binary_fraction((r * 1024) % 1000000, e - 10)

\* The float of the decimal numeral of n millionths
float(n) ==
    round_to_float(binary_digits(n \div 1000000, 0)
                   \cup binary_fraction(n % 1000000, -1))

\* x < y
fless(x, y) == x # y /\ Highest((x \ y) \cup (y \ x)) \in y

\* x + y
fadd(x, y) == round_to_float(exact_add(x, y))

\* x - y for x >= y
fsub(x, y) == round_to_float(exact_sub(x, y))

\* n * x for a natural number n
fmul(n, x) == round_to_float(exact_times(n, x))

\* round(x * 1000000) for a float x below 2000
millionths(x) ==
    LET digits == exact_times(1000000, x)
        whole == {e \in digits : e >= 0}
    IN  Sum([e \in whole |-> 2 ^ e], whole)
        + (IF -1 \in digits THEN 1 ELSE 0)

\* Python's max(x, y) of two floats: x unless y is greater
max(x, y) == IF fless(x, y) THEN y ELSE x

\* Python's min(x, y) of two floats: x unless y is less
min(x, y) == IF fless(y, x) THEN y ELSE x

----------------------------------------------------------------------------
(* extract_aggregated_demand *)

\* {station: charging power}; a later row of the sheet replaces an earlier
station_power_map(md) ==
    LET df == md.charging_stations_df
    IN  [station \in {df[k].pStationIntersection : k \in DOMAIN df} |->
            LET last == CHOOSE k \in DOMAIN df :
                            /\ df[k].pStationIntersection = station
                            /\ \A j \in DOMAIN df :
                                  df[j].pStationIntersection = station
                                  => j <= k
            IN  df[last].pChargingPower]

\* abs(v01Charge - 1) < eps for a cell with a value
close_to_one(v01Charge) ==
    \E x \in {float(v01Charge)}, one \in {float(One)} :
        fless(IF fless(x, one) THEN fsub(one, x) ELSE fsub(x, one),
              float(eps))

\* The rows of a vehicle at the stations where it charges; a comparison
\* with a missing cell is False
charging_stations_visited(intersections_df, all_charging_stations) ==
    LET Charges(row) ==
            /\ row.intersection \in all_charging_stations
            /\ ~isna(row.v01Charge)
            /\ close_to_one(row.v01Charge)
    IN  SelectSeq(intersections_df, Charges)

\* A_{v,i,t} = max(0, min(t + 1, t_departure) - max(t, t_arrival)) for the
\* floats t_arrival and t_departure: a difference of 0 or less gives 0
charging_time(t, t_arrival, t_departure) ==
    LET start == max(float(t * One), t_arrival)
        end == min(float((t + 1) * One), t_departure)
    IN  IF fless(start, end) THEN fsub(end, start) ELSE float(0)

\* The dictionary charging_times after the loop over the vehicles: an
\* entry for every vehicle with solution data, every row where it charges
\* with both times available, and every hour with a charging time above
\* eps.  `row` is the place of the row among the rows of the vehicle: of
\* two entries with the same key the later one replaces the earlier.
charging_times(results, md) ==
    LET all_charging_stations == DOMAIN station_power_map(md)
        HasSolutionData(k) == "solution_data" \in DOMAIN results[k].value
        Rows(k) ==
            charging_stations_visited(
                results[k].value.solution_data.intersections_df,
                all_charging_stations)
        Timed(row) == ~isna(row.vTimeArrival) /\ ~isna(row.vTimeDeparture)
        Hours(t_arrival, t_departure) ==
            {x \in {[t |-> t,
                     charging_time |->
                         charging_time(t, t_arrival, t_departure)]
                    : t \in 0..23} :
                fless(float(eps), x.charging_time)}
        Entries(k, rows, r) ==
            UNION { { [ev_id |-> results[k].key,
                       station |-> rows[r].intersection,
                       t |-> x.t,
                       row |-> r,
                       charging_time |-> x.charging_time]
                      : x \in Hours(stay[1], stay[2]) }
                    : stay \in {<<float(rows[r].vTimeArrival),
                                  float(rows[r].vTimeDeparture)>>} }
    IN  UNION { UNION { UNION { Entries(k, rows, r)
                                : r \in {q \in DOMAIN rows : Timed(rows[q])} }
                        : rows \in {Rows(k)} }
                : k \in {j \in DOMAIN results : HasSolutionData(j)} }

\* charging_times.get((ev_id, station, t), 0)
get(times, ev_id, station, t) ==
    LET stored == {x \in times :
                      x.ev_id = ev_id /\ x.station = station /\ x.t = t}
    IN  IF stored = {} THEN float(0)
        ELSE (CHOOSE x \in stored : \A y \in stored : y.row <= x.row)
                 .charging_time

RECURSIVE total_charging_time(_, _, _, _)
\* total_charging_time = 0, then += the charging time of every vehicle, in
\* the order of all_ev_results.keys(); every += rounds
total_charging_time(results, times, station, t) ==
    IF results = << >> THEN float(0)
    ELSE fadd(total_charging_time(SubSeq(results, 1, Len(results) - 1),
                                  times, station, t),
              get(times, results[Len(results)].key, station, t))

\* sort_values on an empty frame without columns raises KeyError
extract_aggregated_demand_raises(results, md) ==
    DOMAIN station_power_map(md) = {}

\* The rows (charging_station, time_period, aggregated_demand), sorted;
\* the demand is the float station_power * total_charging_time
extract_aggregated_demand(results, md) ==
    LET power == station_power_map(md)
        stations == sort_values(DOMAIN power)
        DemandRow(times, k) ==
            LET station == stations[((k - 1) \div 24) + 1]
                t == (k - 1) % 24
            IN  [charging_station |-> station,
                 time_period |-> t,
                 aggregated_demand |->
                     fmul(power[station],
                          total_charging_time(results, times, station, t))]
    IN  CHOOSE df \in { [k \in 1..(24 * Len(stations)) |-> DemandRow(times, k)]
                        : times \in {charging_times(results, md)} } : TRUE

\* aggregated_demand = extract_aggregated_demand(all_results, map_data)
ExtractAggregatedDemand ==
    /\ pc = "collected"
    /\ IF extract_aggregated_demand_raises(all_ev_results, map_data)
       THEN /\ aggregated_demand' = None
            /\ pc' = "raised"
       ELSE /\ aggregated_demand' =
                   extract_aggregated_demand(all_ev_results, map_data)
            /\ pc' = "aggregated"
    /\ UNCHANGED <<map_data, ev, linearize_constraints, input_data,
                   concrete_model, solution_data, all_ev_results>>
    /\ UNCHANGED run_vars

----------------------------------------------------------------------------
(* extract_solution_data: the values of the solved model as two tables.
   Indicator values are in millionths (One is 1.0), and a variable the
   solver gave no value has var.value = None, written NaN here. *)

\* Mutant of get_var_value: a variable without a value reads as zero
get_var_value_or_zero(var) == IF isna(var) THEN 0 ELSE var

\* var.value; the accessor raises for no variable of the model, so that the
\* except branch returning None is never taken
get_var_value(var) == var

\* One row of intersections_df (routing_model.save_ev_solution_data)
intersection_row_data(m, intersection) ==
    [intersection |-> intersection,
     v01VisitIntersection |-> get_var_value(m.v01VisitIntersection[intersection]),
     vSoCArrival |-> get_var_value(m.vSoCArrival[intersection]),
     vSoCDeparture |-> get_var_value(m.vSoCDeparture[intersection]),
     vTimeArrival |-> get_var_value(m.vTimeArrival[intersection]),
     vTimeDeparture |-> get_var_value(m.vTimeDeparture[intersection]),
     v01Charge |-> IF intersection \in sChargingStations
                   THEN get_var_value(m.v01Charge[intersection]) ELSE NaN,
     vTimeCharging |-> IF intersection \in sChargingStations
                       THEN get_var_value(m.vTimeCharging[intersection])
                       ELSE NaN,
     vTimeDelay |-> IF intersection \in sDeliveryPoints
                    THEN get_var_value(m.vTimeDelay[intersection]) ELSE NaN]

\* One row of paths_df; hasattr(model_instance, 'vXiSoC') holds exactly when
\* the model was built with linearize_constraints
path_row_data(m, path) ==
    [pOriginIntersection |-> pOriginIntersection[path],
     pDestinationIntersection |-> pDestinationIntersection[path],
     v01TravelPath |-> get_var_value(m.v01TravelPath[path]),
     vXiSoC |-> IF linearize_constraints
                THEN get_var_value(m.vXiSoC[path]) ELSE NaN,
     vZetaTime |-> IF linearize_constraints
                   THEN get_var_value(m.vZetaTime[path]) ELSE NaN]

\* routing_model.save_ev_solution_data.extract_solution_data: a row for
\* every intersection and every path of the model, in the order of the sets
extract_solution_data(m) ==
    LET intersections == sort_values(sIntersections)
        paths == sort_values(sPaths)
    IN  [intersections_df |->
            [k \in DOMAIN intersections |->
                intersection_row_data(m, intersections[k])],
         paths_df |->
            [k \in DOMAIN paths |-> path_row_data(m, paths[k])]]

\* model.save_solution_data.extract_solution_data, the extractor of
\* scripts/create_concrete_model.py: a row only where the indicator has a
\* value and that value != 0
model_extract_solution_data(m) ==
    LET visit_value(intersection) ==
            get_var_value(m.v01VisitIntersection[intersection])
        travel_value(path) == get_var_value(m.v01TravelPath[path])
        intersections ==
            sort_values({i \in sIntersections :
                            ~isna(visit_value(i)) /\ visit_value(i) # 0})
        paths ==
            sort_values({p \in sPaths :
                            ~isna(travel_value(p)) /\ travel_value(p) # 0})
    IN  [intersections_df |->
            [k \in DOMAIN intersections |->
                intersection_row_data(m, intersections[k])],
         paths_df |->
            [k \in DOMAIN paths |->
                [pOriginIntersection |-> pOriginIntersection[paths[k]],
                 pDestinationIntersection |->
                     pDestinationIntersection[paths[k]],
                 v01TravelPath |-> travel_value(paths[k])]]]

\* Values a solver leaves in an indicator: 0 and 1, each within its
\* tolerance, or none
FlagValues == {0, 1, One - 1, One, NaN}

\* The variable values of a model after opt.solve.  visit3 and travel1 are
\* the indicators of intersection 3 and of path 1, route those of the rest
\* of the loop, charge the charging indicator, timed whether the continuous
\* variables were loaded.
SolverValues(visit3, travel1, route, charge, timed) ==
    LET level(x) == IF timed THEN x ELSE NaN
    IN  [v01VisitIntersection |->
            [i \in sIntersections |->
                IF i = 3 THEN visit3 ELSE IF i = 4 THEN route ELSE One],
         v01TravelPath |->
            [p \in sPaths |->
                IF p = 1 THEN travel1 ELSE IF p = 4 THEN 0 ELSE route],
         v01Charge |-> [i \in sChargingStations |-> charge],
         vTimeCharging |->
            [i \in sChargingStations |->
                IF isna(charge) THEN NaN
                ELSE IF abs(charge - One) < eps THEN One ELSE 0],
         vSoCArrival |-> [i \in sIntersections |-> level(2 * One)],
         vSoCDeparture |-> [i \in sIntersections |-> level(2 * One)],
         vTimeArrival |-> [i \in sIntersections |-> level(i * One)],
         vTimeDeparture |->
            [i \in sIntersections |->
                level(i * One
                      + (IF i \in sChargingStations /\ ~isna(charge)
                            /\ abs(charge - One) < eps
                         THEN One ELSE 0))],
         vTimeDelay |-> [i \in sDeliveryPoints |-> level(0)],
         vXiSoC |-> IF linearize_constraints
                    THEN [p \in sPaths |-> level(0)] ELSE None,
         vZetaTime |-> IF linearize_constraints
                       THEN [p \in sPaths |-> level(0)] ELSE None]

InitExtract ==
    /\ \E deliveries \in DeliveryTables, stations \in StationTables :
          /\ \A k \in DOMAIN stations :
                stations[k].pStationIntersection \in NodesOf(NetLoop)
          /\ map_data =
                MapData(NetLoop, "road", deliveries, stations, <<1, 4>>, 2)
    /\ ev = 1
    /\ linearize_constraints \in BOOLEAN
    /\ input_data = filter_map_data_for_ev(map_data, ev)
    /\ \E visit3 \in FlagValues, travel1 \in FlagValues, route \in {0, One},
          charge \in {0, One, NaN}, timed \in BOOLEAN :
          concrete_model = SolverValues(visit3, travel1, route, charge, timed)
    /\ solution_data = None
    /\ all_ev_results = None
    /\ aggregated_demand = None
    /\ load_if_exists = FALSE
    /\ pending = << >>
    /\ solver_results = None
    /\ files = None
    /\ scenario = None
    /\ training_data = None
    /\ pc = "solved"

\* solve_for_one_ev: solution_data = extract_solution_data(concrete_model)
ExtractSolutionData ==
    /\ pc = "solved"
    /\ solution_data' = extract_solution_data(concrete_model)
    /\ pc' = "extracted"
    /\ UNCHANGED <<map_data, ev, linearize_constraints, input_data,
                   concrete_model, all_ev_results, aggregated_demand>>
    /\ UNCHANGED run_vars

\* scripts/create_concrete_model.py, with the extractor of the model package
ExtractSolutionDataByScript ==
    /\ pc = "solved"
    /\ solution_data' = model_extract_solution_data(concrete_model)
    /\ pc' = "extracted_by_script"
    /\ UNCHANGED <<map_data, ev, linearize_constraints, input_data,
                   concrete_model, all_ev_results, aggregated_demand>>
    /\ UNCHANGED run_vars

NextExtract == ExtractSolutionData \/ ExtractSolutionDataByScript

SpecExtract == InitExtract /\ [][NextExtract]_vars

----------------------------------------------------------------------------
(* solve_for_one_ev and solve_for_all_evs: what is returned for a vehicle,
   what is saved for it and what is collected for the fleet.  The solver is
   a black box: opt.solve either raises or returns a results object with a
   status, a termination condition and the bounds of the objective. *)

\* Python's a / b for a >= 0 and b > 0, in millionths
truediv(a, b) ==
    LET g == gcd(a, b)
    IN  ((a \div g) * One) \div (b \div g)

\* results['problem'][0] has no such key
KeyMissing == -2

\* The try of lines 193-199 raises KeyError (a key is missing) or TypeError
\* (upper_bound is None in the subtraction); the except branch catches both
bounds_try_raises(lower_bound, upper_bound) ==
    \/ lower_bound = KeyMissing
    \/ upper_bound = KeyMissing
    \/ (~isna(lower_bound) /\ lower_bound # 0 /\ isna(upper_bound))

\* Mutant of final_gap: the gap is computed whenever a lower bound exists
final_gap_of_any_bound(lower_bound, upper_bound) ==
    IF bounds_try_raises(lower_bound, upper_bound) THEN 0
    ELSE IF ~isna(lower_bound) /\ upper_bound # 0 /\ ~isna(upper_bound)
    THEN truediv(upper_bound - lower_bound, abs(upper_bound))
    ELSE 0

\* final_gap of solve_for_one_ev; a bound that is None is NaN
final_gap(lower_bound, upper_bound) ==
    IF bounds_try_raises(lower_bound, upper_bound) THEN 0
    ELSE IF ~isna(lower_bound) /\ lower_bound # 0
    THEN truediv(upper_bound - lower_bound, abs(upper_bound))
    ELSE 0

\* (upper_bound - lower_bound) / abs(upper_bound) divides by zero:
\* ZeroDivisionError is not among the exceptions the except branch catches
final_gap_raises(lower_bound, upper_bound) ==
    /\ ~bounds_try_raises(lower_bound, upper_bound)
    /\ ~isna(lower_bound) /\ lower_bound # 0 /\ upper_bound = 0

\* lower_bound and upper_bound after the try: the except branch sets both
\* to None
bounds_after_try(lower_bound, upper_bound) ==
    IF bounds_try_raises(lower_bound, upper_bound)
    THEN [lower_bound |-> NaN, upper_bound |-> NaN]
    ELSE [lower_bound |-> lower_bound, upper_bound |-> upper_bound]

\* The results object of opt.solve
SolverResults(status, termination_condition, lower_bound, upper_bound) ==
    [status |-> status, termination_condition |-> termination_condition,
     lower_bound |-> lower_bound, upper_bound |-> upper_bound, Time |-> 1]

\* No results object: opt.solve has not been called for the vehicle
NoResults == SolverResults(None, None, NaN, NaN)

\* results.solver.status is neither ok nor aborted
no_solution_object(r) == r.status # "ok" /\ r.status # "aborted"

\* The metadata saved with a solution and returned with it
metadata(r, obj_value) ==
    [solver_status |-> r.status,
     termination_condition |-> r.termination_condition,
     objective_value |-> obj_value,
     final_gap |-> final_gap(r.lower_bound, r.upper_bound),
     execution_time |-> r.Time,
     lower_bound |->
         bounds_after_try(r.lower_bound, r.upper_bound).lower_bound,
     upper_bound |->
         bounds_after_try(r.lower_bound, r.upper_bound).upper_bound]

\* The dictionary solve_for_one_ev returns after opt.solve
ev_results(e, r, sd, obj_value) ==
    IF no_solution_object(r)
    THEN [ev |-> e, solver_status |-> "no_solution"]
    ELSE [ev |-> e, solution_data |-> sd] @@ metadata(r, obj_value)

\* A workbook written by save_solution_data
Workbook(sd, has_metadata, md) ==
    [exists |-> TRUE, readable |-> TRUE, solution_data |-> sd,
     has_metadata |-> has_metadata, metadata |-> md]

NoWorkbook == [exists |-> FALSE]

\* A file that pd.read_excel cannot read
BrokenWorkbook == [exists |-> TRUE, readable |-> FALSE]

\* load_solution_data raises
load_solution_data_raises(file) == ~file.readable

\* Mutant of loaded_ev_results: the saved metadata is not used
loaded_ev_results_without_metadata(e, file) ==
    [solver_status |-> None, termination_condition |-> None,
     objective_value |-> NaN, final_gap |-> NaN,
     execution_time |-> NaN, lower_bound |-> NaN,
     upper_bound |-> NaN] @@ [ev |-> e, solution_data |-> file.solution_data]

\* The dictionary solve_for_one_ev returns for a loaded workbook
loaded_ev_results(e, file) ==
    LET base == [ev |-> e, solution_data |-> file.solution_data]
    IN  IF file.has_metadata
        THEN file.metadata @@ base
        ELSE [solver_status |-> None, termination_condition |-> None,
              objective_value |-> NaN, final_gap |-> NaN,
              execution_time |-> NaN, lower_bound |-> NaN,
              upper_bound |-> NaN] @@ base

\* all_results[key] = value on the dictionary kept as its list of items
setitem(items, key, value) ==
    IF \E k \in DOMAIN items : items[k].key = key
    THEN [k \in DOMAIN items |->
            IF items[k].key = key THEN [key |-> key, value |-> value]
            ELSE items[k]]
    ELSE Append(items, [key |-> key, value |-> value])

\* Mutant of after_vehicle: the loop is left after the first vehicle
after_first_vehicle(rest) == "collected"

\* Where solve_for_all_evs goes when a vehicle is done: on with the loop, or
\* to the aggregation when no vehicle is left
after_vehicle(rest) == IF rest = << >> THEN "collected" ELSE "loop"

\* Mutant of map_data_after_filter: the delivery sheet is filtered in place
map_data_filtered_in_place(md, e) ==
    LET IsOfEv(row) == row.EV = e
    IN  [md EXCEPT !.delivery_points_df =
                        SelectSeq(md.delivery_points_df, IsOfEv)]

\* map_data as filter_map_data_for_ev leaves it: every table is read, the
\* filtered delivery sheet is a new frame bound to a local name
map_data_after_filter(md, e) == md

----------------------------------------------------------------------------
(* extract_aggregated_demand applied to the results of a fleet *)

\* Station sheets of the scenarios: no station, one, two in either order
ScenarioStationTables ==
    { << >>,
      << StationRow(3, 2, 1, 2, 1, <<1, 1>>) >>,
      << StationRow(3, 2, 1, 2, 1, <<1, 1>>),
         StationRow(4, 3, 1, 2, 1, <<1, 1>>) >>,
      << StationRow(4, 3, 1, 2, 1, <<1, 1>>),
         StationRow(3, 2, 1, 2, 1, <<1, 1>>) >> }

\* <<v01VisitIntersection, v01Charge, vTimeArrival, vTimeDeparture>> of an
\* intersection the vehicle does not visit
Unvisited == <<0, 0, 0, 0>>

\* Stays of a quarter of an hour or less in hour 0: from 0h to 0.1h, to
\* 0.2h and to 0.3h.  None of 0.1, 0.2 and 0.3 is a float
ShortStays ==
    { <<One, One, 0, One \div 10>>,
      <<One, One, 0, One \div 5>>,
      <<One, One, 0, (3 * One) \div 10>> }

\* Stays at a station: passing at 2h; staying from 2h to 3h without
\* charging; charging from 1.5h to 3.25h; charging from 2h to 3h with the
\* flag at 0.999995; charging from 1.999995h to 3h; charging from 23.5h to
\* 24.5h; charging until 3h with no arrival time; charging from 2h with no
\* departure time; the short stays
Stays ==
    { <<One, 0, 2 * One, 2 * One>>,
      <<One, 0, 2 * One, 3 * One>>,
      <<One, One, (3 * One) \div 2, (13 * One) \div 4>>,
      <<One, One - 5, 2 * One, 3 * One>>,
      <<One, One, 2 * One - 5, 3 * One>>,
      <<One, One, (47 * One) \div 2, (49 * One) \div 2>>,
      <<One, One, NaN, 3 * One>>,
      <<One, One, 2 * One, NaN>> }
    \cup ShortStays

\* The row extract_solution_data writes for an intersection of the vehicle
\* e whose battery stays at 2 kWh
IntersectionRow(md, e, intersection, stay) ==
    LET is_station == intersection \in DOMAIN station_power_map(md)
        is_delivery ==
            \E k \in DOMAIN md.delivery_points_df :
                /\ md.delivery_points_df[k].EV = e
                /\ md.delivery_points_df[k].pDeliveryIntersection
                       = intersection
        timed == ~isna(stay[3]) /\ ~isna(stay[4])
        charges == abs(stay[2] - One) < eps
        level == IF stay[1] = 0 THEN 0 ELSE 2 * One
    IN  [intersection |-> intersection,
         v01VisitIntersection |-> stay[1],
         vSoCArrival |-> level,
         vSoCDeparture |-> level,
         vTimeArrival |-> stay[3],
         vTimeDeparture |-> stay[4],
         v01Charge |-> IF is_station THEN stay[2] ELSE NaN,
         vTimeCharging |-> IF ~is_station \/ ~timed THEN NaN
                           ELSE IF charges THEN stay[4] - stay[3] ELSE 0,
         vTimeDelay |-> IF is_delivery THEN 0 ELSE NaN]

\* The tables extract_solution_data returns for the vehicle e of the town:
\* a row for every intersection and every path, the vehicle on the route
\* 1, 3, 4, 2 when it visits 3 and on the path from 1 to 2 otherwise
SolutionData(md, e, stay3, stay4) ==
    LET route == IF stay3[1] = 0 THEN {<<1, 2>>}
                 ELSE {<<1, 3>>, <<3, 4>>, <<4, 2>>}
    IN  [intersections_df |->
            << IntersectionRow(md, e, 1, <<One, 0, 0, 0>>),
               IntersectionRow(md, e, 2, <<One, 0, 5 * One, 5 * One>>),
               IntersectionRow(md, e, 3, stay3),
               IntersectionRow(md, e, 4, stay4) >>,
         paths_df |->
            [k \in DOMAIN md.paths_df |->
                [pOriginIntersection |-> md.paths_df[k].pOriginIntersection,
                 pDestinationIntersection |->
                     md.paths_df[k].pDestinationIntersection,
                 v01TravelPath |->
                     IF <<md.paths_df[k].pOriginIntersection,
                          md.paths_df[k].pDestinationIntersection>> \in route
                     THEN One ELSE 0,
                 vXiSoC |-> NaN,
                 vZetaTime |-> NaN]]]

\* The results solve_for_one_ev returns for the vehicle e with the tables
\* sd: those of an optimum whose cost is the energy charged at price 1, or,
\* when a time of the tables is missing, those of a workbook loaded without
\* metadata
ResultsOf(md, e, sd) ==
    LET df == sd.intersections_df
        power == station_power_map(md)
        charged == {k \in DOMAIN df : df[k].intersection \in DOMAIN power}
    IN  IF \E k \in charged : isna(df[k].vTimeCharging)
        THEN loaded_ev_results(e, Workbook(sd, FALSE, None))
        ELSE LET cost == Sum([k \in charged |->
                                 power[df[k].intersection]
                                 * df[k].vTimeCharging],
                             charged)
             IN  ev_results(e, SolverResults("ok", "optimal", cost, cost),
                            sd, cost)

\* The results solve_for_one_ev returns for a vehicle: no solution, or a
\* solution with a stay at each of the intersections 3 and 4
EvResults(md, e, stays) ==
    { ev_results(e, SolverResults("warning", "infeasible", NaN, NaN),
                 None, NaN) }
    \cup { ResultsOf(md, e, SolutionData(md, e, s[1], s[2])) : s \in stays }

\* The stays of a vehicle at 3 and at 4: none, or one of Stays at 3 followed
\* at 4 by a passage at 4h or by a charge until 5h with no arrival time
LongStays ==
    { <<Unvisited, Unvisited>> }
    \cup (Stays \X { <<One, 0, 4 * One, 4 * One>>,
                     <<One, One, NaN, 5 * One>> })

\* The vehicles of a scenario, in the order of map_data['evs']
Fleets == { << >>, <<1>>, <<2>>, <<1, 2>>, <<2, 1>>, <<1, 2, 3>> }

\* The dictionaries {ev: results} of a fleet, as the sequence of their
\* items; the vehicles of the fleet of three make short stays at 3 only
AllEvResults(md, fleet) ==
    LET stays == IF Len(fleet) = 3
                 THEN ShortStays \X {Unvisited} ELSE LongStays
        Items(k) == { [key |-> fleet[k], value |-> r] :
                        r \in EvResults(md, fleet[k], stays) }
    IN  FunctionsOver(DOMAIN fleet, [k \in DOMAIN fleet |-> Items(k)])

InitAggregate ==
    /\ \E stations \in ScenarioStationTables, fleet \in Fleets :
          /\ map_data =
                MapData(NetTown, "road",
                        [k \in DOMAIN fleet |->
                            DeliveryRow(fleet[k], 2, 0, 5, 1)],
                        stations, <<1, 2>>, 2)
          /\ all_ev_results \in AllEvResults(map_data, fleet)
    /\ ev = 1
    /\ linearize_constraints = FALSE
    /\ input_data = None
    /\ concrete_model = NoValues
    /\ solution_data = None
    /\ aggregated_demand = None
    /\ load_if_exists = FALSE
    /\ pending = << >>
    /\ solver_results = NoResults
    /\ files = None
    /\ scenario = None
    /\ training_data = None
    /\ pc = "collected"

NextAggregate == ExtractAggregatedDemand

SpecAggregate == InitAggregate /\ [][NextAggregate]_vars

\* A workbook saved by the extractor of the model package for the vehicle
\* e: the rows of the intersections it visits and of the paths it travels,
\* no metadata
ScriptWorkbook(md, e) ==
    Workbook([intersections_df |->
                 << IntersectionRow(md, e, 1, <<One, 0, 0, 0>>),
                    IntersectionRow(md, e, 3,
                                    <<One, One, 2 * One, 3 * One>>),
                    IntersectionRow(md, e, 4,
                                    <<One, One, 3 * One, 4 * One>>) >>,
              paths_df |->
                 << [pOriginIntersection |-> 1, pDestinationIntersection |-> 3,
                     v01TravelPath |-> One],
                    [pOriginIntersection |-> 3, pDestinationIntersection |-> 4,
                     v01TravelPath |-> One] >>],
             FALSE, None)

\* Delivery sheets of the fleet: with the station at 3 both vehicles of
\* the first sheet have a route, and only vehicle 2 of the second
FleetDeliveryTables ==
    { << DeliveryRow(1, 4, 0, 3, 1), DeliveryRow(2, 4, 1, 2, 1) >>,
      << DeliveryRow(1, 3, 0, 1, 1), DeliveryRow(2, 4, 1, 2, 1) >>,
      << DeliveryRow(1, 3, 2, 1, 1) >> }

FleetStationTables ==
    { << >>, << StationRow(4, 2, 1, 2, 1, <<1, 1>>) >>,
      << StationRow(3, 1, 2, 2, 1, <<2, 1>>) >> }

InitScenario ==
    /\ \E deliveries \in FleetDeliveryTables, stations \in FleetStationTables :
          map_data =
              MapData(NetLoop, "road", deliveries, stations, <<1, 4>>, 2)
    /\ files \in FunctionsOver(evs(map_data),
                              [e \in evs(map_data) |->
                                  {NoWorkbook, BrokenWorkbook,
                                   ScriptWorkbook(map_data, e)}])
    /\ load_if_exists \in BOOLEAN
    /\ linearize_constraints \in BOOLEAN
    /\ pending = sort_values(evs(map_data))
    /\ all_ev_results = << >>
    /\ ev = 0
    /\ input_data = None
    /\ concrete_model = NoValues
    /\ solver_results = NoResults
    /\ solution_data = None
    /\ aggregated_demand = None
    /\ scenario = None
    /\ training_data = None
    /\ pc = after_vehicle(pending)

\* The workbook of the vehicle is loaded instead of solving (lines 33-73)
LoadForOneEv ==
    /\ pc = "loop"
    /\ LET e == Head(pending)
       IN  /\ load_if_exists /\ files[e].exists
           /\ ~load_solution_data_raises(files[e])
           /\ ev' = e
           /\ solution_data' = files[e].solution_data
           /\ all_ev_results' =
                  setitem(all_ev_results, e, loaded_ev_results(e, files[e]))
    /\ solver_results' = NoResults
    /\ pending' = Tail(pending)
    /\ pc' = after_vehicle(pending')
    /\ UNCHANGED <<map_data, linearize_constraints, input_data,
                   concrete_model, aggregated_demand, load_if_exists,
                   files, scenario, training_data>>

\* Nothing is loaded, or loading raised: the instance is built (lines
\* 80-96), and concrete_model is the new instance, without values
BuildForOneEv ==
    /\ pc = "loop"
    /\ LET e == Head(pending)
       IN  /\ ~(load_if_exists /\ files[e].exists
                  /\ ~load_solution_data_raises(files[e]))
           /\ ev' = e
           /\ input_data' = filter_map_data_for_ev(map_data, e)
           /\ map_data' = map_data_after_filter(map_data, e)
    /\ concrete_model' = NoValues
    /\ pc' = IF create_instance_raises(input_data') THEN "failed" ELSE "built"
    /\ UNCHANGED <<linearize_constraints, report_vars, run_vars>>

\* The fraction v as the float of a cell, written in millionths (every value
\* a solution of the scenarios below takes is a whole number of millionths)
decimal(v) == (v[1] * One) \div v[2]

\* The values opt.solve loads into the model for the assignment m: floats,
\* written in millionths; the auxiliary variables exist in the linearized
\* model only
loaded_values(m) ==
    [name \in DOMAIN m |->
        IF name \in {"vXiSoC", "vZetaTime"} /\ ~linearize_constraints
        THEN None
        ELSE IF name \in {"v01Charge", "v01TravelPath",
                          "v01VisitIntersection"}
        THEN [i \in DOMAIN m[name] |-> m[name][i] * One]
        ELSE [i \in DOMAIN m[name] |-> decimal(m[name][i])]]

\* pyo.value(concrete_model.Obj) at the values loaded into m, in millionths
pyo_value(m) ==
    LET Obj == c34_objective_function
        at == [x \in DOMAIN Obj.c |-> Frac(m[x[1]][x[2]], One)]
        s == RowSum(Obj.c, at, <<Obj.k, 1>>)
    IN  decimal(Frac(s[1], s[2] * Obj.d))

\* The bounds a results object may carry for an incumbent of objective
\* upper and a proven bound of at most least: both, one of them None, or
\* a key missing
ReportedBounds(least, upper) ==
    { <<lower, upper>> : lower \in {0, least \div 2, least} }
    \cup { <<NaN, NaN>>, <<least, NaN>>, <<0, NaN>>,
           <<KeyMissing, upper>>, <<0, KeyMissing>> }

\* opt.solve returns a results object (line 173): the optimum, an incumbent
\* when the time limit stops the search, or no solution when the instance
\* has none
OptSolve ==
    /\ pc = "built"
    /\ \E S \in {Minima} :
          IF S = {}
          THEN /\ concrete_model' = NoValues
               /\ \E termination_condition \in
                        {"infeasible", "infeasibleOrUnbounded"} :
                     solver_results' =
                         SolverResults("warning", termination_condition,
                                       NaN, NaN)
          ELSE \E least \in {MinObjective(S)} :
                 \/ \E x \in {y \in S : y.least = least} :
                       \E m \in Optima(x.b, least) :
                          /\ concrete_model' = loaded_values(m)
                          /\ \E b \in {<<decimal(least), decimal(least)>>,
                                        <<NaN, NaN>>,
                                        <<KeyMissing, KeyMissing>>} :
                                solver_results' =
                                    SolverResults("ok", "optimal", b[1], b[2])
                 \/ \E x \in S :
                       \E m \in Solutions(x.b) :
                          /\ concrete_model' = loaded_values(m)
                          /\ \E b \in ReportedBounds(
                                        decimal(least),
                                        decimal(ValueOf(
                                            c34_objective_function, m))) :
                                solver_results' =
                                    SolverResults("aborted", "maxTimeLimit",
                                                  b[1], b[2])
    /\ pc' = "solved"
    /\ UNCHANGED <<map_data, ev, linearize_constraints, input_data,
                   report_vars, load_if_exists, pending, files, scenario,
                   training_data>>

\* opt.solve raises: the solver is not available, it reports an error, or it
\* stops on the time limit without an incumbent.  Nothing in solve_for_one_ev
\* or in the loop of solve_for_all_evs catches the exception.
OptSolveRaises ==
    /\ pc = "built"
    /\ pc' = "failed"
    /\ UNCHANGED <<map_data, ev, linearize_constraints, input_data,
                   concrete_model, report_vars, run_vars>>

\* The rest of solve_for_one_ev (lines 179-274) and all_results[ev] = ...
ReturnForOneEv ==
    /\ pc = "solved"
    /\ LET r == solver_results
       IN  IF no_solution_object(r)
           THEN /\ all_ev_results' =
                       setitem(all_ev_results, ev, ev_results(ev, r, None, NaN))
                /\ UNCHANGED <<solution_data, files>>
                /\ pending' = Tail(pending)
                /\ pc' = after_vehicle(pending')
           ELSE IF final_gap_raises(r.lower_bound, r.upper_bound)
           THEN /\ pc' = "failed"
                /\ UNCHANGED <<solution_data, all_ev_results, files, pending>>
           ELSE LET obj_value == pyo_value(concrete_model)
                    sd == extract_solution_data(concrete_model)
                IN  /\ solution_data' = sd
                    /\ \E saved \in BOOLEAN :
                          files' =
                              IF saved
                              THEN [files EXCEPT ![ev] =
                                       Workbook(sd, TRUE,
                                                metadata(r, obj_value))]
                              ELSE files
                    /\ all_ev_results' =
                           setitem(all_ev_results, ev,
                                   ev_results(ev, r, sd, obj_value))
                    /\ pending' = Tail(pending)
                    /\ pc' = after_vehicle(pending')
    /\ UNCHANGED <<map_data, ev, linearize_constraints, input_data,
                   concrete_model, aggregated_demand, load_if_exists,
                   solver_results, scenario, training_data>>

\* solve_for_all_evs is called again on the same map_data, now with
\* load_if_exists, and finds the workbooks the first call left
SolveForAllEvsAgain ==
    /\ pc \in {"aggregated", "raised"}
    /\ ~load_if_exists
    /\ load_if_exists' = TRUE
    /\ pending' = sort_values(evs(map_data))
    /\ all_ev_results' = << >>
    /\ aggregated_demand' = None
    /\ solver_results' = NoResults
    /\ pc' = after_vehicle(pending')
    /\ UNCHANGED <<map_data, ev, linearize_constraints, input_data,
                   concrete_model, solution_data, files, scenario,
                   training_data>>

NextScenario ==
    \/ LoadForOneEv
    \/ BuildForOneEv
    \/ OptSolve
    \/ OptSolveRaises
    \/ ReturnForOneEv
    \/ ExtractAggregatedDemand
    \/ SolveForAllEvsAgain

SpecScenario == InitScenario /\ [][NextScenario]_vars

----------------------------------------------------------------------------
(* main of scripts/main_routing_model.py: the aggregated demand of a run is
   appended to the training-data CSV file unless the file already holds the
   scenario.  A file is its header line, if it has one, and its data lines;
   scenario=None is written NaN. *)

\* Runs of main after which the file is no longer followed
MaxRuns == 3

\* scenario_value = 0 if scenario is None else scenario
scenario_value(sc) == IF isna(sc) THEN 0 ELSE sc

\* processed_demand_df: the rows of the run with their scenario column
processed_demand_df(demand, sc) ==
    [k \in DOMAIN demand |->
        [scenario |-> scenario_value(sc),
         charging_station |-> demand[k].charging_station,
         time_period |-> demand[k].time_period,
         aggregated_demand |-> demand[k].aggregated_demand]]

\* The rows of scenarios_csv_file: scenario -> {station: price}; station 9
\* is no station of the map
ScenariosCsv ==
    (1 :> ((4 :> 5) @@ (9 :> 3))) @@ (2 :> ((4 :> 1) @@ (9 :> 3)))

\* scenario_row.empty: main raises ValueError (lines 51-53)
scenario_not_found(sc) == ~isna(sc) /\ sc \notin DOMAIN ScenariosCsv

\* charging_prices of main for a scenario of the file (lines 55-59)
charging_prices(sc) == ScenariosCsv[sc]

\* load_excel_map_data(file, charging_prices): the price of a station of
\* the dictionary replaces the price of the last row of that station
load_excel_map_data(workbook, prices) ==
    LET df == workbook.charging_stations_df
        station_to_index(station) ==
            CHOOSE k \in DOMAIN df :
                /\ df[k].pStationIntersection = station
                /\ \A j \in DOMAIN df :
                      df[j].pStationIntersection = station => j <= k
    IN  [workbook EXCEPT !.charging_stations_df =
            [k \in DOMAIN df |->
                IF /\ df[k].pStationIntersection \in DOMAIN prices
                   /\ k = station_to_index(df[k].pStationIntersection)
                THEN [df[k] EXCEPT !.pChargingPrice =
                                      prices[df[k].pStationIntersection]]
                ELSE df[k]]]

\* The training_data path without a file; dirname is os.path.dirname of
\* the path, "" for a bare file name
NoFile(dirname) ==
    [dirname |-> dirname, exists |-> FALSE, header |-> FALSE, rows |-> << >>]

\* An existing file of zero bytes
EmptyFile(dirname) ==
    [dirname |-> dirname, exists |-> TRUE, header |-> FALSE, rows |-> << >>]

\* os.makedirs(os.path.dirname(training_data), exist_ok=True) raises
\* FileNotFoundError for the empty directory name
makedirs_raises(file) == file.dirname = ""

\* pd.read_csv raises (EmptyDataError: no columns to parse)
read_csv_raises(file) == ~file.header /\ file.rows = << >>

\* 'scenario' in existing_df.columns: without a header line the first data
\* line is taken for the column names
has_scenario_column(file) == file.header

\* Mutant of scenario_exists: the scenario is never found in the file
scenario_never_exists(file, sc) == FALSE

\* scenario_exists of main (lines 116-132)
scenario_exists(file, sc) ==
    /\ file.exists
    /\ ~read_csv_raises(file)
    /\ has_scenario_column(file)
    /\ \E k \in DOMAIN file.rows : file.rows[k].scenario = scenario_value(sc)

\* to_csv(training_data, mode='a' if file_exists else 'w',
\*        header=not file_exists)
to_csv(file, df) ==
    IF file.exists
    THEN [file EXCEPT !.rows = @ \o df]
    ELSE [file EXCEPT !.exists = TRUE, !.header = TRUE, !.rows = df]

\* The map in input_excel_file: one charging station
TrainingMapData ==
    MapData(NetLoop, "road", << DeliveryRow(1, 3, 0, 1, 1) >>,
            << StationRow(4, 2, 1, 2, 1, <<1, 1>>) >>, <<1, 4>>, 2)

\* What solve_for_all_evs collected in a run: a vehicle without a solution,
\* or a vehicle loaded from a workbook in which it charges at the station
TrainingResults ==
    { << [key |-> 1,
          value |-> ev_results(1, SolverResults("warning", "infeasible",
                                                NaN, NaN), None, NaN)] >>,
      << [key |-> 1,
          value |-> loaded_ev_results(
                        1, ScriptWorkbook(TrainingMapData, 1))] >> }

InitTraining ==
    /\ map_data = TrainingMapData
    /\ training_data \in {NoFile(""), NoFile("data"), EmptyFile("data")}
    /\ scenario = NaN
    /\ all_ev_results = << >>
    /\ aggregated_demand = << >>
    /\ ev = 0
    /\ linearize_constraints = FALSE
    /\ load_if_exists = FALSE
    /\ input_data = None
    /\ concrete_model = NoValues
    /\ solution_data = None
    /\ pending = << >>
    /\ solver_results = NoResults
    /\ files = None
    /\ pc = "main"

\* main(scenario=sc, scenarios_csv_file=..., training_data=...) with
\* ev=None.  A scenario that is not in the scenarios file raises before the
\* map is loaded; an exception of lines 111-142 is caught and printed, and
\* the file stays as it was.
Main ==
    /\ pc = "main"
    /\ Len(training_data.rows) < MaxRuns * 24
    /\ \E sc \in {NaN, 1, 2, 3}, collected \in TrainingResults :
          /\ scenario' = sc
          /\ IF scenario_not_found(sc)
             THEN UNCHANGED <<map_data, all_ev_results, aggregated_demand,
                              training_data>>
             ELSE LET md == IF isna(sc) THEN TrainingMapData
                            ELSE load_excel_map_data(TrainingMapData,
                                                     charging_prices(sc))
                      raised == extract_aggregated_demand_raises(collected, md)
                      demand == extract_aggregated_demand(collected, md)
                  IN  /\ map_data' = md
                      /\ all_ev_results' = collected
                      /\ aggregated_demand' = IF raised THEN None ELSE demand
                      /\ training_data' =
                             IF \/ raised
                                \/ makedirs_raises(training_data)
                                \/ scenario_exists(training_data, sc)
                             THEN training_data
                             ELSE to_csv(training_data,
                                         processed_demand_df(demand, sc))
    /\ UNCHANGED <<ev, linearize_constraints, input_data,
                   concrete_model, pc, solution_data, load_if_exists,
                   pending, solver_results, files>>

NextTraining == Main

SpecTraining == InitTraining /\ [][NextTraining]_vars

----------------------------------------------------------------------------
(* Vocabulary of the properties *)

Solved == pc = "feasible"

\* The route reported by the solver, as a set of paths
Travelled == {p \in sPaths : concrete_model.v01TravelPath[p] = 1}

Visited == {i \in sIntersections : concrete_model.v01VisitIntersection[i] = 1}

OutDegree(i) == Cardinality({p \in Travelled : pOriginIntersection[p] = i})

InDegree(i) == Cardinality({p \in Travelled : pDestinationIntersection[p] = i})

RECURSIVE ReachedFrom(_)
\* The intersections connected to the set R by travelled paths out of R
ReachedFrom(R) ==
    LET more == {pDestinationIntersection[p] :
                    p \in {q \in Travelled : pOriginIntersection[q] \in R}}
    IN  IF more \subseteq R THEN R ELSE ReachedFrom(R \cup more)

\* The travelled paths are one simple walk from the start node to the end
\* node through every delivery point, and nothing else is travelled.
SingleSimpleWalk ==
    LET walk == ReachedFrom({pStartingPoint})
    IN  /\ \A i \in sIntersections : OutDegree(i) <= 1 /\ InDegree(i) <= 1
        /\ InDegree(pStartingPoint) = 0 \/ pStartingPoint = pEndingPoint
        /\ pEndingPoint \in walk
        /\ sDeliveryPoints \subseteq walk
        /\ \A p \in Travelled : pOriginIntersection[p] \in walk

\* A route that leaves the start node and comes back to it, through every
\* delivery point, using each intersection once.
RoundTrip ==
    /\ OutDegree(pStartingPoint) = 1
    /\ InDegree(pStartingPoint) = 1
    /\ \A i \in sIntersections : OutDegree(i) = InDegree(i) /\ OutDegree(i) <= 1
    /\ sDeliveryPoints \subseteq ReachedFrom({pStartingPoint})
    /\ \A p \in Travelled :
          pOriginIntersection[p] \in ReachedFrom({pStartingPoint})

\* Some choice of visit flags satisfies the navigation constraints with the
\* route of the current candidate.
NavigationSatisfiable ==
    \E visit \in [sIntersections -> Binary] :
        \A row \in NavigationConstraints(
                       [concrete_model EXCEPT !.v01VisitIntersection = visit]) :
            Satisfied(row)

\* The constraint system of the instance with the binary values of the
\* state, reduced by its equations: what every assignment of the
\* continuous variables over the reals that satisfies the model with these
\* binary values satisfies is what ReducedModel entails
ReducedModel == Reduce(get_ev_routing_abstract_model(concrete_model), Order)

\* The value of a variable of the state is the number n / d
Is(value, n, d) == value = Frac(n, d)

\* A value of the state is positive
Positive(value) == value[1] > 0

----------------------------------------------------------------------------
(* C1 - C14 *)

\* C1: in every satisfying assignment (quadratic or linearized, no MTZ
\* constraints) the travelled paths form one simple walk from the start
\* node to the end node through every delivery point, and no travelled
\* path lies on a cycle disconnected from that walk.
C1_SingleWalkNoSubtour ==
    Solved => SingleSimpleWalk

\* C2: when the start node and the end node are the same intersection, a
\* round trip (leave the node, visit the delivery points, come back)
\* satisfies the constraints; in particular it satisfies the navigation
\* constraints c36 - c41 for some visit flags.
C2_RoundTripFeasible ==
    (/\ pc \in {"branched", "feasible", "infeasible"}
     /\ pStartingPoint = pEndingPoint
     /\ RoundTrip)
    => NavigationSatisfiable

\* C3: in every satisfying assignment the start node, the end node and
\* every delivery point of the vehicle have visit flag 1.
C3_TerminalsAndDeliveriesVisited ==
    Solved =>
        /\ concrete_model.v01VisitIntersection[pStartingPoint] = 1
        /\ concrete_model.v01VisitIntersection[pEndingPoint] = 1
        /\ \A d \in sDeliveryPoints :
              concrete_model.v01VisitIntersection[d] = 1

C3_Witness ==
    /\ Solved
    /\ pStartingPoint # pEndingPoint
    /\ sDeliveryPoints # {}
    /\ sIntersections \ Visited # {}

\* C4: in every satisfying assignment every intersection but the end node
\* has as many outgoing travelled paths as its visit flag, every
\* intersection but the start node as many incoming ones, the end node has
\* no outgoing and the start node no incoming travelled path.
C4_FlowBalance ==
    Solved =>
        /\ \A i \in sIntersections \ {pEndingPoint} :
              OutDegree(i) = concrete_model.v01VisitIntersection[i]
        /\ \A i \in sIntersections \ {pStartingPoint} :
              InDegree(i) = concrete_model.v01VisitIntersection[i]
        /\ OutDegree(pEndingPoint) = 0
        /\ InDegree(pStartingPoint) = 0

C4_Witness ==
    /\ Solved
    /\ Cardinality(Travelled) >= 2
    /\ sIntersections \ Visited # {}
    /\ pStartingPoint # pEndingPoint

\* C5: whatever values over the non-negative reals the continuous
\* variables take in an assignment that satisfies the model, quadratic or
\* linearized, for every travelled path the arrival SoC at its destination
\* is the departure SoC at its origin minus the consumption at average
\* speed minus the net acceleration/braking energy.
C5_EnergyBalance ==
    Solved =>
        \A reduced \in {ReducedModel} :
            \A p \in Travelled :
                Entails(reduced,
                    Eq(Var("vSoCArrival", pDestinationIntersection[p]),
                       Minus(Minus(Var("vSoCDeparture", pOriginIntersection[p]),
                                   Times(Num(pPowerConsAtAvgSpeed[p]),
                                         Over(Num(pDistanceAtAvgSpeed[p]),
                                              Num(pAvgSpeed[p])))),
                             Times(Minus(Over(Num(1),
                                              Num(pAccelerationEfficiency)),
                                         Num(pBrakingEfficiency)),
                                   Num(pKineticEnergy[p])))))

C5_Witness ==
    /\ Solved
    /\ linearize_constraints
    /\ \E p \in Travelled :
          /\ pKineticEnergy[p] > 0
          /\ Less(concrete_model.vSoCArrival[pDestinationIntersection[p]],
                  concrete_model.vSoCDeparture[pOriginIntersection[p]])
    /\ \E s \in sChargingStations : concrete_model.v01Charge[s] = 1

\* C6: whatever values over the non-negative reals the continuous
\* variables take in an assignment that satisfies the model, quadratic or
\* linearized, for every travelled path the arrival time at its
\* destination is the departure time at its origin plus the time at
\* average speed plus the acceleration/braking time; and departure minus
\* arrival time at an intersection is the delivery duration at a delivery
\* point, the charging duration at a charging station, and 0 elsewhere.
C6_TimeBalance ==
    Solved =>
        \A reduced \in {ReducedModel} :
            /\ \A p \in Travelled :
                  Entails(reduced,
                      Eq(Var("vTimeArrival", pDestinationIntersection[p]),
                         Plus(Plus(Var("vTimeDeparture",
                                       pOriginIntersection[p]),
                                   Over(Num(pDistanceAtAvgSpeed[p]),
                                        Num(pAvgSpeed[p]))),
                              Num(pAccelerationBrakingTime[p]))))
            /\ \A i \in sIntersections :
                  LET dwell == Minus(Var("vTimeDeparture", i),
                                     Var("vTimeArrival", i))
                  IN  /\ i \in sDeliveryPoints =>
                            Entails(reduced,
                                    Eq(dwell, Num(pTimeMakingDelivery[i])))
                      /\ i \in sChargingStations =>
                            Entails(reduced,
                                    Eq(dwell, Var("vTimeCharging", i)))
                      /\ i \notin sDeliveryPoints \cup sChargingStations =>
                            Entails(reduced, Eq(dwell, Num(0)))

C6_Witness ==
    /\ Solved
    /\ \E p \in Travelled :
          pDistanceAtAvgSpeed[p]
          + pAccelerationBrakingTime[p] * pAvgSpeed[p] > 0
    /\ \E d \in sDeliveryPoints : pTimeMakingDelivery[d] > 0
    /\ \E s \in sChargingStations :
          Positive(concrete_model.vTimeCharging[s])

\* C7: whatever values over the non-negative reals the continuous
\* variables take in an assignment that satisfies the model, quadratic or
\* linearized, the arrival and the departure SoC of a visited intersection
\* lie between pMinSoC and pMaxSoC, and those of an unvisited intersection
\* are 0.
C7_SoCBounds ==
    Solved =>
        \A reduced \in {ReducedModel} :
            \A i \in sIntersections :
                \A name \in {"vSoCArrival", "vSoCDeparture"} :
                    IF concrete_model.v01VisitIntersection[i] = 1
                    THEN /\ Entails(reduced, Ge(Var(name, i), Num(pMinSoC)))
                         /\ Entails(reduced, Le(Var(name, i), Num(pMaxSoC)))
                    ELSE Entails(reduced, Eq(Var(name, i), Num(0)))

C7_Witness ==
    /\ Solved
    /\ linearize_constraints
    /\ pEndingPoint \in sChargingStations
    /\ concrete_model.v01Charge[pEndingPoint] = 1
    /\ Is(concrete_model.vSoCDeparture[pEndingPoint], pMaxSoC, 1)
    /\ sIntersections \ Visited # {}

\* C8: whatever values over the non-negative reals the continuous
\* variables take in an assignment that satisfies the model, a station
\* with charge flag 1 has a charging time between its minimum and maximum,
\* a station with charge flag 0 has charging time 0, and the charge flag
\* is 1 only at a visited station.
C8_ChargingTime ==
    Solved =>
        \A reduced \in {ReducedModel} :
            \A s \in sChargingStations :
                /\ concrete_model.v01Charge[s] = 1 =>
                      /\ Entails(reduced, Ge(Var("vTimeCharging", s),
                                             Num(pMinChargingTime[s])))
                      /\ Entails(reduced, Le(Var("vTimeCharging", s),
                                             Num(pMaxChargingTime[s])))
                      /\ concrete_model.v01VisitIntersection[s] = 1
                /\ concrete_model.v01Charge[s] = 0 =>
                      Entails(reduced, Eq(Var("vTimeCharging", s), Num(0)))

C8_Witness ==
    /\ Solved
    /\ \E s \in sChargingStations :
          /\ concrete_model.v01Charge[s] = 1
          /\ Less(<<pMinChargingTime[s], 1>>, concrete_model.vTimeCharging[s])
          /\ Less(concrete_model.vTimeCharging[s], <<pMaxChargingTime[s], 1>>)

\* C9: whatever values over the non-negative reals the continuous
\* variables take in an assignment that satisfies the model, the arrival
\* SoC at the start node is pStartingSoC and the departure SoC at the end
\* node is at least pStartingSoC.
C9_StartEndSoC ==
    Solved =>
        \A reduced \in {ReducedModel} :
            /\ Entails(reduced, Eq(Var("vSoCArrival", pStartingPoint),
                                   Num(pStartingSoC)))
            /\ Entails(reduced, Ge(Var("vSoCDeparture", pEndingPoint),
                                   Num(pStartingSoC)))

C9_Witness ==
    /\ Solved
    /\ pStartingPoint # pEndingPoint
    /\ \E p \in Travelled : pPowerConsAtAvgSpeed[p] > 0
    /\ Less(<<pStartingSoC, 1>>, concrete_model.vSoCDeparture[pEndingPoint])

\* C10: a vehicle whose pStartingSoC is below pMinSoC has no satisfying
\* assignment, in the quadratic and in the linearized model: whatever the
\* route and whatever the values of the binary variables, the rows left on
\* the continuous variables have no solution over the non-negative reals,
\* so the solver never reaches a feasible assignment.
C10_LowStartingSoCInfeasible ==
    (pc \in {"branched", "feasible", "infeasible"}
     /\ pStartingSoC < pMinSoC)
    => /\ pc # "feasible"
       /\ pc = "branched" =>
             \A b \in Branches(concrete_model.v01TravelPath) :
                 ~Feasible(get_ev_routing_abstract_model(b), Order)

C10_Witness ==
    /\ pc = "infeasible"
    /\ pStartingSoC < pMinSoC
    /\ linearize_constraints
    /\ Travelled # {}
    /\ NavigationSatisfiable

\* C11: whatever values over the non-negative reals the continuous
\* variables take in an assignment that satisfies the linearized model,
\* for every path the auxiliary vXiSoC is the product of v01TravelPath and
\* the departure SoC at the path's origin, and vZetaTime is the product of
\* v01TravelPath and the departure time at the path's origin.
C11_LinearizationExact ==
    (Solved /\ linearize_constraints) =>
        \A reduced \in {ReducedModel} :
            \A p \in sPaths :
                /\ Entails(reduced,
                       Eq(Var("vXiSoC", p),
                          Times(Num(concrete_model.v01TravelPath[p]),
                                Var("vSoCDeparture", pOriginIntersection[p]))))
                /\ Entails(reduced,
                       Eq(Var("vZetaTime", p),
                          Times(Num(concrete_model.v01TravelPath[p]),
                                Var("vTimeDeparture", pOriginIntersection[p]))))

C11_Witness ==
    /\ Solved
    /\ linearize_constraints
    /\ \E p \in Travelled :
          /\ Positive(concrete_model.vXiSoC[p])
          /\ Positive(concrete_model.vZetaTime[p])
    /\ \E p \in sPaths \ Travelled :
          /\ Positive(concrete_model.vSoCDeparture[pOriginIntersection[p]])
          /\ Positive(concrete_model.vTimeDeparture[pOriginIntersection[p]])

\* C12: for every instance, the quadratic and the linearized model have
\* the same feasibility status and the same optimal objective value:
\* solving the same instance again with the other value of
\* linearize_constraints gives the same outcome.
C12_SameStatusAndOptimum ==
    [][(pc = "built" /\ solver_results.solver_status # None /\ pc' # pc)
          => (solver_results' = solver_results)]_vars

\* The objective of the claim, from the sheets: price * power * charging
\* time * efficiency over the rows of the station sheet, plus penalty rate
\* * delay over the vehicle's rows of the delivery sheet
ChargingCostAndDelayPenalty ==
    LET stations == map_data.charging_stations_df
        deliveries == map_data.delivery_points_df
        mine == {k \in DOMAIN deliveries : deliveries[k].EV = ev}
    IN  Plus(LinSum([k \in DOMAIN stations |->
                        Times(Times(Num(stations[k].pChargingPrice
                                        * stations[k].pChargingPower),
                                    Number(stations[k]
                                               .pChargerEfficiencyRate)),
                              Var("vTimeCharging",
                                  stations[k].pStationIntersection))]),
             LinSum([k \in mine |->
                        Times(Num(deliveries[k].pDelayPenalty),
                              Var("vTimeDelay",
                                  deliveries[k].pDeliveryIntersection))]))

\* C13: the objective is the charging cost, price * power * charging time
\* * efficiency summed over the stations, plus the delay penalty, penalty
\* rate * delay summed over the vehicle's delivery points, and nothing else
\* (no term for the paths travelled): the two are the same expression in
\* the variables, so they have the same value at every assignment.
C13_ObjectiveValue ==
    pc \in {"built", "branched", "feasible", "infeasible"} =>
        c34_objective_function = ChargingCostAndDelayPenalty

\* A route charging 0.2h at a 50 kW station of efficiency 0.9 and arriving
\* late at a delivery point: the charging cost is price * 50 * 0.2 * 0.9
C13_Witness ==
    /\ Solved
    /\ \E s \in sChargingStations :
          /\ Is(concrete_model.vTimeCharging[s], 2, 10)
          /\ pChargingPower[s] = 50
          /\ pChargerEfficiencyRate[s] = <<9, 10>>
          /\ \E d \in sDeliveryPoints :
                /\ Positive(concrete_model.vTimeDelay[d])
                /\ ValueOf(c34_objective_function, concrete_model) =
                       Frac(pChargingPrice[s] * 50 * 2 * 9
                            + pDelayPenalty[d]
                              * concrete_model.vTimeDelay[d][1]
                              * (100 \div concrete_model.vTimeDelay[d][2]),
                            100)
    /\ \E p \in Travelled : pDistanceAtAvgSpeed[p] > 0

\* C14: in every optimal solution, whatever values over the non-negative
\* reals its continuous variables take, at every delivery point with a
\* positive penalty rate the delay is the lateness of the arrival, the
\* greater of 0 and arrival time minus the time without penalty.
C14_DelayIsLateness ==
    pc = "optimal" =>
        \A optimal \in
              {Reduce(get_ev_routing_abstract_model(concrete_model)
                      \cup {Eq(c34_objective_function,
                               Number(ValueOf(c34_objective_function,
                                              concrete_model)))},
                      Order)} :
            \A d \in sDeliveryPoints :
                pDelayPenalty[d] > 0 =>
                    LET delay == Var("vTimeDelay", d)
                        lateness == Minus(Var("vTimeArrival", d),
                                          Num(pTimeWithoutPenalty[d]))
                    IN  /\ Entails(optimal, Ge(delay, Num(0)))
                        /\ Entails(optimal, Ge(delay, lateness))
                        /\ ~Consistent(optimal, {Gt(delay, Num(0)),
                                                 Gt(delay, lateness)})

\* An optimal solution that arrives at 2.3h against a deadline of 2.0h at
\* rate 10/h: the delay is 0.3h and its cost 10 * 0.3
C14_Witness ==
    /\ pc = "optimal"
    /\ \E d \in sDeliveryPoints :
          /\ pDelayPenalty[d] = 10
          /\ pTimeWithoutPenalty[d] = 2
          /\ Is(concrete_model.vTimeArrival[d], 23, 10)
          /\ Is(concrete_model.vTimeDelay[d], 3, 10)
          /\ ValueOf(Times(Num(pDelayPenalty[d]), Var("vTimeDelay", d)),
                     concrete_model) = Frac(3, 1)

----------------------------------------------------------------------------
(* Vocabulary of the properties of the aggregated demand *)

\* The charging sessions at a station: <<item, row>> of every vehicle with
\* a solution whose charge flag at the station is within eps of 1 and whose
\* arrival and departure times are available
Sessions(station) ==
    {s \in UNION { {<<k, r>> :
                      r \in DOMAIN all_ev_results[k].value.solution_data
                                       .intersections_df}
                   : k \in {j \in DOMAIN all_ev_results :
                               "solution_data"
                                   \in DOMAIN all_ev_results[j].value} } :
        LET row == all_ev_results[s[1]].value.solution_data
                       .intersections_df[s[2]]
        IN  /\ row.intersection = station
            /\ row.v01Charge # NaN
            /\ row.v01Charge - One < eps
            /\ One - row.v01Charge < eps
            /\ row.vTimeArrival # NaN
            /\ row.vTimeDeparture # NaN}

SessionRow(s) ==
    all_ev_results[s[1]].value.solution_data.intersections_df[s[2]]

\* The time a session spends in the hour t
Overlap(s, t) ==
    LET a == SessionRow(s).vTimeArrival
        b == SessionRow(s).vTimeDeparture
        from == IF a > t * One THEN a ELSE t * One
        to == IF b < (t + 1) * One THEN b ELSE (t + 1) * One
    IN  IF to > from THEN to - from ELSE 0

\* The charging power of a station in the station sheet
PowerOf(station) ==
    LET df == map_data.charging_stations_df
        k == CHOOSE j \in DOMAIN df : df[j].pStationIntersection = station
    IN  df[k].pChargingPower

\* The demand reported for a station and an hour
DemandAt(station, t) ==
    LET k == CHOOSE j \in DOMAIN aggregated_demand :
                 /\ aggregated_demand[j].charging_station = station
                 /\ aggregated_demand[j].time_period = t
    IN  aggregated_demand[k].aggregated_demand

\* C15: every row of the table holds, for its station i and its hour t,
\* pChargingPower[i] times the sum over the charging sessions at i of
\* max(0, min(t+1, b) - max(t, a)), to the millionth of a kWh.
C15_DemandIsPowerTimesOverlap ==
    pc = "aggregated" =>
        \A k \in DOMAIN aggregated_demand :
            LET row == aggregated_demand[k]
                S == Sessions(row.charging_station)
            IN  millionths(row.aggregated_demand) =
                    PowerOf(row.charging_station)
                    * Sum([s \in S |-> Overlap(s, row.time_period)], S)

\* The energy of all the rows of the table, in millionths of a kWh
TotalDemand ==
    LET charged == {k \in DOMAIN aggregated_demand :
                       aggregated_demand[k].aggregated_demand # float(0)}
    IN  Sum([k \in charged |->
                millionths(aggregated_demand[k].aggregated_demand)],
            charged)

\* The energy of all the charging sessions: power times charging duration
TotalSessionEnergy ==
    LET stations == {map_data.charging_stations_df[k].pStationIntersection :
                        k \in DOMAIN map_data.charging_stations_df}
    IN  Sum([i \in stations |->
                PowerOf(i)
                * Sum([s \in Sessions(i) |-> SessionRow(s).vTimeCharging],
                      Sessions(i))],
            stations)

\* C16: the demand summed over all stations and all hours 0..23 is, to the
\* millionth of a kWh, the sum over the vehicles and their charging
\* sessions of the station's power times the charging duration, whatever
\* the start and end of a session.
C16_EnergyConserved ==
    pc = "aggregated" => TotalDemand = TotalSessionEnergy

\* all_ev_results with its vehicles in every order
Reorderings ==
    LET n == Len(all_ev_results)
    IN  { [k \in 1..n |-> all_ev_results[p[k]]] :
            p \in {q \in [1..n -> 1..n] :
                      \A i, j \in 1..n : q[i] = q[j] => i = j} }

\* C17: the table does not depend on the order of the vehicles in
\* all_ev_results: every permutation of the vehicles gives the same rows,
\* with the same floats.
C17_OrderOfVehiclesIrrelevant ==
    pc = "aggregated" =>
        \A reordered \in Reorderings :
            extract_aggregated_demand(reordered, map_data) = aggregated_demand

\* The charging stations of the network
StationsOfNetwork ==
    {map_data.charging_stations_df[k].pStationIntersection :
        k \in DOMAIN map_data.charging_stations_df}

\* C18: for every input extract_aggregated_demand returns a table with
\* exactly one row for every charging station of the network and every
\* hour 0..23, 24 rows for a station, and the demand of a row is 0 when no
\* vehicle charged at the station in the hour, also when no vehicle has a
\* solution.
C18_OneRowPerStationAndHour ==
    pc \in {"aggregated", "raised"} =>
        /\ pc = "aggregated"
        /\ Len(aggregated_demand) = 24 * Cardinality(StationsOfNetwork)
        /\ \A i \in StationsOfNetwork, t \in 0..23 :
              /\ Cardinality({k \in DOMAIN aggregated_demand :
                     /\ aggregated_demand[k].charging_station = i
                     /\ aggregated_demand[k].time_period = t}) = 1
              /\ (\A s \in Sessions(i) : Overlap(s, t) = 0)
                    => DemandAt(i, t) = float(0)

----------------------------------------------------------------------------
(* The solution tables of a vehicle *)

IntersectionVariables ==
    {"v01VisitIntersection", "vSoCArrival", "vSoCDeparture", "vTimeArrival",
     "vTimeDeparture"}

\* C19: extract_solution_data returns its two tables whatever values the
\* variables have: every intersection and path has its row, a variable
\* without a value is recorded as None in it, and the charging fields of an
\* intersection that is no charging station and the delay field of one that
\* is no delivery point are None.
C19_MissingValuesAreNone ==
    pc = "extracted" =>
        LET idf == solution_data.intersections_df
            pdf == solution_data.paths_df
        IN  /\ {idf[k].intersection : k \in DOMAIN idf} = sIntersections
            /\ Len(pdf) = Cardinality(sPaths)
            /\ \A k \in DOMAIN idf :
                  LET row == idf[k]
                      i == row.intersection
                  IN  /\ \A name \in IntersectionVariables :
                            isna(concrete_model[name][i]) => isna(row[name])
                      /\ IF i \in sChargingStations
                         THEN /\ isna(concrete_model.v01Charge[i])
                                    => isna(row.v01Charge)
                              /\ isna(concrete_model.vTimeCharging[i])
                                    => isna(row.vTimeCharging)
                         ELSE isna(row.v01Charge) /\ isna(row.vTimeCharging)
                      /\ IF i \in sDeliveryPoints
                         THEN isna(concrete_model.vTimeDelay[i])
                                 => isna(row.vTimeDelay)
                         ELSE isna(row.vTimeDelay)
            /\ \A k \in DOMAIN pdf :
                  LET p == sort_values(sPaths)[k]
                  IN  /\ isna(concrete_model.v01TravelPath[p])
                            => isna(pdf[k].v01TravelPath)
                      /\ linearize_constraints
                            => /\ isna(concrete_model.vXiSoC[p])
                                     => isna(pdf[k].vXiSoC)
                               /\ isna(concrete_model.vZetaTime[p])
                                     => isna(pdf[k].vZetaTime)

\* A model in which the solver left the indicator of an intersection, the
\* charging indicator of a station and the times without a value, with an
\* intersection that is neither a station nor a delivery point
C19_Witness ==
    /\ pc = "extracted"
    /\ \E i \in sIntersections :
          isna(concrete_model.v01VisitIntersection[i])
    /\ \E i \in sChargingStations : isna(concrete_model.v01Charge[i])
    /\ \E i \in sDeliveryPoints : isna(concrete_model.vTimeDelay[i])
    /\ \E i \in sIntersections :
          i \notin sChargingStations \cup sDeliveryPoints
    /\ \E k \in DOMAIN solution_data.intersections_df :
          isna(solution_data.intersections_df[k].v01VisitIntersection)

\* The intersections and the paths a table of the record has a row for
RecordedIntersections ==
    {solution_data.intersections_df[k].intersection :
        k \in DOMAIN solution_data.intersections_df}

RecordedPaths ==
    {<<solution_data.paths_df[k].pOriginIntersection,
       solution_data.paths_df[k].pDestinationIntersection>> :
        k \in DOMAIN solution_data.paths_df}

\* C20: the record of either extractor holds exactly the intersections whose
\* visit indicator is within eps of 1 and exactly the paths whose travel
\* indicator is within eps of 1.
C20_RecordHoldsWhatIsWithinEpsOfOne ==
    pc \in {"extracted", "extracted_by_script"} =>
        /\ RecordedIntersections =
              {i \in sIntersections :
                  abs(concrete_model.v01VisitIntersection[i] - One) < eps}
        /\ RecordedPaths =
              {<<pOriginIntersection[p], pDestinationIntersection[p]>> :
                  p \in {q \in sPaths :
                            abs(concrete_model.v01TravelPath[q] - One) < eps}}

----------------------------------------------------------------------------
(* What solve_for_one_ev returns and solve_for_all_evs collects *)

\* The vehicle ev has just been given its entry of all_results
Returned ==
    /\ pc \in {"loop", "collected"}
    /\ \E k \in DOMAIN all_ev_results : all_ev_results[k].key = ev

\* all_results[ev]
ReturnedResults ==
    all_ev_results[CHOOSE k \in DOMAIN all_ev_results :
                       all_ev_results[k].key = ev].value

\* C21: for a model the solver found infeasible, the returned results carry
\* no solution data, name the outcome as infeasible, and differ from the
\* results returned for an unbounded model.
C21_InfeasibleIsReported ==
    (Returned /\ solver_results.termination_condition = "infeasible") =>
        /\ "solution_data" \notin DOMAIN ReturnedResults
        /\ \E field \in {"solver_status", "termination_condition"}
                         \cap DOMAIN ReturnedResults :
              ReturnedResults[field] = "infeasible"
        /\ ReturnedResults #
              ev_results(ev, SolverResults("warning", "unbounded", NaN, NaN),
                         None, NaN)

\* C22: after a stop on the time limit with an incumbent, the returned
\* results carry the incumbent's solution data and objective value, and
\* final_gap is (upper_bound - lower_bound) / |upper_bound| of the reported
\* bounds (when the results object has both), zero only when the two
\* bounds coincide.
C22_GapOfTheReportedBounds ==
    (Returned /\ solver_results.status = "aborted") =>
        LET lower_bound == solver_results.lower_bound
            upper_bound == solver_results.upper_bound
        IN  /\ ReturnedResults.solution_data = solution_data
            /\ ReturnedResults.objective_value =
                  pyo_value(concrete_model)
            /\ (lower_bound >= 0 /\ upper_bound >= 0) =>
                  /\ upper_bound # 0 =>
                        ReturnedResults.final_gap =
                            truediv(upper_bound - lower_bound,
                                    abs(upper_bound))
                  /\ ReturnedResults.final_gap = 0 =>
                        lower_bound = upper_bound

\* The vehicles that have an entry in all_results
Recorded == {all_ev_results[k].key : k \in DOMAIN all_ev_results}

\* C23: extract_aggregated_demand is entered only from the end of the loop,
\* when every vehicle of map_data['evs'] has its entry in all_results, and a
\* call of solve_for_all_evs that has run it does not run it again.
C23_AggregationAfterEveryVehicle ==
    [][ /\ (pc' \in {"aggregated", "raised"} /\ pc' # pc) =>
              /\ pc = "collected"
              /\ pending = << >>
              /\ Recorded = evs(map_data)
              /\ all_ev_results' = all_ev_results
        /\ (pc \in {"aggregated", "raised"} /\ pc' # pc) =>
              /\ pc' = "loop"
              /\ all_ev_results' = << >>
      ]_vars

\* The aggregation has run on the results of two vehicles, one of them
\* charging
C23_Witness ==
    /\ pc = "aggregated"
    /\ Recorded = {1, 2}
    /\ \E k \in DOMAIN aggregated_demand :
          fless(float(0), aggregated_demand[k].aggregated_demand)

\* C24: when solve_for_all_evs stops, every vehicle of map_data['evs'] other
\* than one whose own solve failed has its entry in all_results.
C24_OtherVehiclesStillSolved ==
    pc \in {"failed", "aggregated", "raised"} =>
        \A e \in evs(map_data) \ (IF pc = "failed" THEN {ev} ELSE {}) :
            \E k \in DOMAIN all_ev_results :
                /\ all_ev_results[k].key = e
                /\ all_ev_results[k].value.ev = e

\* C25: no step of solve_for_all_evs changes map_data.
C25_MapDataIsReadOnly == [][map_data' = map_data]_vars

\* Two vehicles have been built from map_data and their results aggregated
C25_Witness ==
    /\ pc = "aggregated"
    /\ Recorded = {1, 2}
    /\ \A k \in DOMAIN all_ev_results :
          all_ev_results[k].value.solver_status \in {"ok", "aborted"}
    /\ input_data = filter_map_data_for_ev(map_data, 2)

\* C26: with load_if_exists and an existing workbook for the next vehicle,
\* a workbook that loads is returned without the solver being called: the
\* results hold its solution data with its saved metadata, or None in every
\* metadata field when it has none.  A workbook that does not load leads to
\* the instance being built from map_data as without load_if_exists.
C26_LoadInsteadOfSolve ==
    [][ (pc = "loop" /\ load_if_exists /\ files[Head(pending)].exists) =>
           LET e == Head(pending)
               file == files[e]
               loaded ==
                   all_ev_results'[CHOOSE k \in DOMAIN all_ev_results' :
                                       all_ev_results'[k].key = e].value
           IN  IF file.readable
               THEN /\ pc' \in {"loop", "collected"}
                    /\ solver_results' = NoResults
                    /\ concrete_model' = concrete_model
                    /\ files' = files
                    /\ e \in Recorded'
                    /\ loaded.ev = e
                    /\ loaded.solution_data = file.solution_data
                    /\ IF file.has_metadata
                       THEN \A field \in DOMAIN file.metadata :
                               loaded[field] = file.metadata[field]
                       ELSE /\ loaded.solver_status = None
                            /\ loaded.termination_condition = None
                            /\ \A field \in {"objective_value", "final_gap",
                                             "execution_time", "lower_bound",
                                             "upper_bound"} :
                                  isna(loaded[field])
               ELSE /\ pc' \in {"built", "failed"}
                    /\ input_data' = filter_map_data_for_ev(map_data, e)
                    /\ all_ev_results' = all_ev_results
                    /\ pending' = pending
      ]_vars

\* The second vehicle has been loaded from the workbook an earlier call
\* saved for it after a stop on the time limit with an open gap
C26_Witness ==
    /\ Returned
    /\ load_if_exists
    /\ ev = 2
    /\ solver_results = NoResults
    /\ files[2].exists /\ files[2].readable /\ files[2].has_metadata
    /\ ReturnedResults.solver_status = "aborted"
    /\ ReturnedResults.final_gap > 0
    /\ files[1].exists /\ files[1].readable /\ files[1].has_metadata
    /\ 1 \in Recorded

----------------------------------------------------------------------------
(* The training-data file *)

\* The data lines of the file that belong to a scenario id
LinesOfScenario(file, id) ==
    LET OfScenario(row) == row.scenario = id
    IN  SelectSeq(file.rows, OfScenario)

\* C27: a run of main leaves the lines of every other scenario as they are,
\* writes nothing when the file already holds lines of its scenario, and so
\* the file never holds two lines of one scenario for the same station and
\* hour.
C27_OneRunPerScenario ==
    [][ LET id == scenario_value(scenario')
        IN  /\ \A other \in {0, 1, 2} \ {id} :
                  LinesOfScenario(training_data', other)
                      = LinesOfScenario(training_data, other)
            /\ LinesOfScenario(training_data, id) # << >> =>
                  training_data' = training_data
            /\ \A j, k \in DOMAIN training_data'.rows :
                  (/\ training_data'.rows[j].scenario
                          = training_data'.rows[k].scenario
                   /\ training_data'.rows[j].charging_station
                          = training_data'.rows[k].charging_station
                   /\ training_data'.rows[j].time_period
                          = training_data'.rows[k].time_period)
                  => j = k
      ]_vars

----------------------------------------------------------------------------
(* Vehicles without a solution and sessions without a time *)

\* The results without the vehicles that have no solution_data and without
\* the rows whose arrival or departure time is missing
WithSolutionAndTimes(results) ==
    LET HasSolution(item) == "solution_data" \in DOMAIN item.value
        HasTimes(row) == row.vTimeArrival # NaN /\ row.vTimeDeparture # NaN
        Timed(item) ==
            [item EXCEPT !.value.solution_data.intersections_df =
                             SelectSeq(@, HasTimes)]
        solved == SelectSeq(results, HasSolution)
    IN  [k \in DOMAIN solved |-> Timed(solved[k])]

\* C28: a vehicle whose result has no solution_data and a session whose
\* arrival or departure time is missing add nothing to any (station, hour)
\* value and raise nothing: extract_aggregated_demand ends as it ends on
\* the results without them, and with the same table (the demand of the
\* other vehicles).
C28_SkippedResultsAddNothing ==
    /\ pc = "aggregated" =>
          /\ ~extract_aggregated_demand_raises(
                  WithSolutionAndTimes(all_ev_results), map_data)
          /\ aggregated_demand =
                 extract_aggregated_demand(
                     WithSolutionAndTimes(all_ev_results), map_data)
    /\ pc = "raised" =>
          extract_aggregated_demand_raises(
              WithSolutionAndTimes(all_ev_results), map_data)

\* Vehicle 1 has no solution; vehicle 2 charges from 1.5h to 3.25h at
\* station 3 and has a charging row without arrival time at station 4: the
\* table has the demand of station 3 and nothing at station 4
C28_Witness ==
    /\ pc = "aggregated"
    /\ Len(all_ev_results) = 2
    /\ \E k \in DOMAIN all_ev_results :
          /\ all_ev_results[k].key = 1
          /\ "solution_data" \notin DOMAIN all_ev_results[k].value
    /\ \E k \in DOMAIN all_ev_results :
          /\ all_ev_results[k].key = 2
          /\ "solution_data" \in DOMAIN all_ev_results[k].value
          /\ LET df == all_ev_results[k].value.solution_data.intersections_df
             IN  /\ df[3].intersection = 3
                 /\ df[3].vTimeArrival = (3 * One) \div 2
                 /\ df[3].vTimeDeparture = (13 * One) \div 4
                 /\ df[4].intersection = 4
                 /\ df[4].v01Charge = One
                 /\ df[4].vTimeArrival = NaN
    /\ millionths(DemandAt(3, 1)) = PowerOf(3) * (One \div 2)
    /\ millionths(DemandAt(3, 2)) = PowerOf(3) * One
    /\ \A t \in 0..23 : DemandAt(4, t) = float(0)

----------------------------------------------------------------------------
(* A delivery point that is a charging station *)

\* The intersections where the vehicle delivers and can charge
DeliveryStations == sDeliveryPoints \cap sChargingStations

\* C29: at an intersection that is both a delivery point of the vehicle and
\* a charging station, whatever values over the non-negative reals the
\* continuous variables take in an assignment that satisfies the model,
\* vTimeCharging is pTimeMakingDelivery; when that duration is positive the
\* charge flag is 1 and the duration lies between pMinChargingTime and
\* pMaxChargingTime (an instance where it does not has no assignment).
C29_DeliveryAtStationChargesForItsDuration ==
    Solved =>
        \A reduced \in {ReducedModel} :
            \A i \in DeliveryStations :
                /\ Entails(reduced, Eq(Var("vTimeCharging", i),
                                       Num(pTimeMakingDelivery[i])))
                /\ pTimeMakingDelivery[i] > 0 =>
                      /\ concrete_model.v01Charge[i] = 1
                      /\ pMinChargingTime[i] <= pTimeMakingDelivery[i]
                      /\ pTimeMakingDelivery[i] <= pMaxChargingTime[i]

\* A feasible assignment where the vehicle delivers for 2h at a station
\* and charges there for these 2h
C29_Witness ==
    /\ Solved
    /\ \E i \in DeliveryStations :
          /\ pTimeMakingDelivery[i] = 2
          /\ concrete_model.v01Charge[i] = 1
          /\ Is(concrete_model.vTimeCharging[i], 2, 1)
          /\ ValueOf(Minus(Var("vTimeDeparture", i), Var("vTimeArrival", i)),
                     concrete_model) = Frac(2, 1)

----------------------------------------------------------------------------
(* Energy charged against energy consumed *)

\* The energy gained at the charging stations
EnergyCharged ==
    LinSum([s \in sChargingStations |->
               Times(Times(Num(pChargingPower[s]),
                           Number(pChargerEfficiencyRate[s])),
                     Var("vTimeCharging", s))])

\* The net energy consumed on the traversed paths of m
NetConsumption(m) ==
    LinSum([p \in {q \in sPaths : m.v01TravelPath[q] = 1} |->
               Plus(Times(Num(pPowerConsAtAvgSpeed[p]),
                          Over(Num(pDistanceAtAvgSpeed[p]),
                               Num(pAvgSpeed[p]))),
                    Times(Minus(Over(Num(1), Num(pAccelerationEfficiency)),
                                Num(pBrakingEfficiency)),
                          Num(pKineticEnergy[p])))])

\* C30: whatever values over the non-negative reals the continuous
\* variables take in an assignment that satisfies the model, the energy
\* gained by charging, the sum over the stations of pChargingPower *
\* vTimeCharging * pChargerEfficiencyRate, is at least the net energy
\* consumed on the traversed paths; when that consumption is positive,
\* some visited charging station has its charge flag at 1.
C30_ChargedCoversConsumed ==
    Solved =>
        \A reduced \in {ReducedModel} :
            /\ Entails(reduced,
                       Ge(EnergyCharged, NetConsumption(concrete_model)))
            /\ NetConsumption(concrete_model).k > 0 =>
                  \E s \in sChargingStations :
                      /\ concrete_model.v01VisitIntersection[s] = 1
                      /\ concrete_model.v01Charge[s] = 1

\* A feasible route that consumes energy and passes a station where the
\* vehicle charges more than the route consumes
C30_Witness ==
    /\ Solved
    /\ NetConsumption(concrete_model).k > 0
    /\ Less(ValueOf(NetConsumption(concrete_model), concrete_model),
            ValueOf(EnergyCharged, concrete_model))
    /\ \E s \in sChargingStations :
          /\ concrete_model.v01Charge[s] = 1
          /\ Positive(concrete_model.vTimeCharging[s])

====
